---- MODULE Spec2Model ----
(***************************************************************************)
(* Model of NanoRec-CPP's capture -> buffer -> encode pipeline.            *)
(*                                                                         *)
(*  - ThreadSafeFrameBuffer (src/src/core/ThreadSafeFrameBuffer.cpp): the  *)
(*    double-buffered frame exchange, at the granularity of its atomic     *)
(*    loads/stores, its mutex and the single bytes moved by memcpy.        *)
(*  - CaptureThread (src/src/core/CaptureThread.cpp) and FFmpegVideoWriter *)
(*    (src/src/core/FFmpegVideoWriter.cpp): the orchestrator, its capture  *)
(*    loop and the encoder session.                                        *)
(*                                                                         *)
(* SpecX   one producer inside pushFrame and one consumer inside            *)
(*         getLatestFrame against one exchange.                            *)
(* Spec    one controlling (UI) thread calling start, stop, startRecording *)
(*         and stopRecording, the capture thread running captureLoop, and  *)
(*         the encoder subprocess.                                         *)
(* FairSpec is Spec with both threads scheduled fairly.                    *)
(* SpecW   one thread driving an FFmpegVideoWriter call by call.           *)
(* SpecM   one thread calling the screen capture provider's methods.       *)
(* SpecR   SpecX with the owner re-initializing the exchange.              *)
(* SpecS   calls of FrameScaler's functions and of convertToRGB24.          *)
(* SpecA   the application: its UI actions on top of Spec's threads.        *)
(* SpecC   two threads inside CaptureThread::startRecording at once.        *)
(***************************************************************************)
EXTENDS Integers, Sequences, FiniteSets, TLC

\* ------------------------------------------------------------------ bounds
\* number of distinct frames the producer pushes in one run
MaxFrames == 3

\* ------------------------------------------------------------- frame buffer
\* bytes per pixel of the packed RGB24 format (stride = width * 3)
BytesPerPixel == 3

\* geometries the exchange is initialized with
InitGeoms == {<<1, 1>>}

\* geometries of the frames handed to pushFrame
InputGeoms == {<<1, 1>>, <<2, 1>>}

\* values an uninitialized byte returned by new uint8_t[size] may hold
Garbage == {0, 1}

Fill(n, b) == [i \in 1..n |-> b]

\* FrameBuffer() : data(nullptr), size(0), width(0), height(0), stride(0)
EmptyFrameBuffer ==
    [alloc |-> FALSE, data |-> <<>>, width |-> 0, height |-> 0, stride |-> 0, size |-> 0]

\* FrameBuffer::allocate(w, h); g is the content of the fresh memory
Allocate(w, h, g) ==
    [alloc |-> TRUE, data |-> Fill(w * BytesPerPixel * h, g),
     width |-> w, height |-> h, stride |-> w * BytesPerPixel,
     size |-> w * BytesPerPixel * h]

\* a captured frame of geometry w x h all of whose bytes carry the frame id
MakeFrame(w, h, id) == Allocate(w, h, id)

VARIABLES
    \* ThreadSafeFrameBuffer
    m_buffers, m_writeIndex, m_readIndex, m_hasNewFrame, m_swapMutex,
    m_width, m_height,
    \* slot arrays obtained from new uint8_t[size] and not yet given to delete[]
    liveSlots,
    \* producer thread inside pushFrame
    pPc, pFrame, writeIdx, oldWrite, oldRead, pOff, pRet, nextId,
    \* consumer thread inside getLatestFrame
    cPc, readIdx, cOff, outFrame, cRet,
    \* history of the run
    overlap, pending, lastPushed,
    \* the build and the recorder process, the encoder subprocess
    platform, process, ffmpeg,
    \* CaptureThread
    m_running, m_shouldStop, m_recording, m_screenCapture, m_frameBuffer,
    m_videoWriter, m_thread,
    m_recordingFilename, m_recordingFPS, m_recordingWidth, m_recordingHeight,
    m_useScaling,
    \* the FFmpegVideoWriter object m_videoWriter points to
    vw,
    \* controlling (UI) thread inside a CaptureThread method
    uiPc, uiOp, uiArgs, uiRet, pre, finalized,
    \* capture thread inside captureLoop
    clPc, captureBuffer, scaledBuffer, frameCount, lastWrite, writeOnDead,
    \* a thread that drives an FFmpegVideoWriter directly, inside one of its
    \* methods, and the system calls of that method
    wPc, wOp, wArg, wRet, wPre, sys,
    \* the LinuxScreenCapture object, and the last call made on it: the
    \* method, its argument, its result and the object before the call
    provider, scOp, scArg, scRet, scPre,
    \* the FrameBuffer handed to captureFrame, that buffer before the last
    \* call, and whether the call freed and allocated its data
    scBuf, scBufPre, scAlloc,
    \* the last call of a pixel function: the function, its source frame,
    \* its integer arguments, its result, its output dimensions, and its
    \* destination buffer before and after the call
    fsOp, fsSource, fsArgs, fsRet, fsOut, fsDstPre, fsDst,
    \* the XImage handed to convertToRGB24, if that was the last call, and the
    \* buffer it filled
    cvImage, cvOut,
    \* Application::Impl: the UI thread's position in renderUI, the recording
    \* flag of the UI and the monitor chosen in the combo
    appPc, isRecording, selectedMonitorId,
    \* two threads inside startRecording at once: each caller's position,
    \* arguments and result, the FFmpegVideoWriter objects they created, the
    \* object m_videoWriter owns and the objects whose ffmpeg subprocess runs
    callers, writers, held, encoders

xvars == <<m_buffers, m_writeIndex, m_readIndex, m_hasNewFrame, m_swapMutex,
           m_width, m_height, liveSlots,
           pPc, pFrame, writeIdx, oldWrite, oldRead, pOff, pRet, nextId,
           cPc, readIdx, cOff, outFrame, cRet,
           overlap, pending, lastPushed>>

exchangeVars == <<m_buffers, m_writeIndex, m_readIndex, m_hasNewFrame, m_swapMutex,
                  m_width, m_height, liveSlots>>
producerVars == <<pPc, pFrame, writeIdx, oldWrite, oldRead, pOff, pRet, nextId>>
consumerVars == <<cPc, readIdx, cOff, outFrame, cRet>>

envVars == <<platform, process, ffmpeg>>
ctVars == <<m_running, m_shouldStop, m_recording, m_screenCapture, m_frameBuffer,
            m_videoWriter, m_thread>>
recVars == <<m_recordingFilename, m_recordingFPS, m_recordingWidth,
             m_recordingHeight, m_useScaling>>
uiVars == <<uiPc, uiOp, uiArgs, uiRet, pre, finalized>>
clVars == <<clPc, captureBuffer, scaledBuffer, frameCount, lastWrite, writeOnDead>>

wVars == <<wPc, wOp, wArg, wRet, wPre, sys>>
scVars == <<provider, scOp, scArg, scRet, scPre, scBuf, scBufPre, scAlloc>>

\* what no method of CaptureThread touches
fsVars == <<fsOp, fsSource, fsArgs, fsRet, fsOut, fsDstPre, fsDst>>
cvVars == <<cvImage, cvOut>>
appVars == <<appPc, isRecording, selectedMonitorId>>
ccVars == <<callers, writers, held, encoders>>
sideVars == <<wVars, scVars, fsVars, cvVars, appVars, ccVars>>

orchVars == <<envVars, ctVars, recVars, vw, uiVars, clVars, sideVars>>
pcVars == <<producerVars, consumerVars, overlap, pending, lastPushed>>

vars == <<xvars, orchVars>>

\* the other thread is inside a call that has not returned to its caller yet:
\* a step taken now overlaps with that call
ProducerBusy == pPc # "idle"
ConsumerBusy == cPc # "idle"

\* the recorder process has not been killed by a signal
Alive == process = "alive"

\* ----------------------------------------------------------- construction
XInit ==
    /\ m_buffers = [i \in 0..1 |-> EmptyFrameBuffer]
    /\ m_writeIndex = 0
    /\ m_readIndex = 1
    /\ m_hasNewFrame = FALSE
    /\ m_swapMutex = "free"
    /\ m_width = 0
    /\ m_height = 0
    /\ liveSlots = 0
    /\ pPc = "idle" /\ pFrame = EmptyFrameBuffer /\ writeIdx = 0
    /\ oldWrite = 0 /\ oldRead = 0 /\ pOff = 0 /\ pRet = FALSE /\ nextId = 1
    /\ cPc = "idle" /\ readIdx = 0 /\ cOff = 0 /\ outFrame = EmptyFrameBuffer
    /\ cRet = FALSE
    /\ overlap = FALSE /\ pending = 0 /\ lastPushed = 0

\* ------------------------------------------------------------- initialize
\* ThreadSafeFrameBuffer::initialize(width, height), called by the owner of
\* the exchange before the capture thread is started.
Initialize(w, h) ==
    /\ Alive
    /\ pPc = "idle" /\ cPc = "idle"
    /\ uiPc = "idle" /\ ~m_running
    /\ ~m_buffers[0].alloc
    /\ \E g0 \in Garbage, g1 \in Garbage :
          m_buffers' = [i \in 0..1 |-> IF i = 0 THEN Allocate(w, h, g0)
                                                ELSE Allocate(w, h, g1)]
    /\ m_width' = w
    /\ m_height' = h
    /\ liveSlots' = liveSlots + 2
    /\ UNCHANGED <<m_writeIndex, m_readIndex, m_hasNewFrame, m_swapMutex>>
    /\ UNCHANGED <<producerVars, consumerVars, overlap, pending, lastPushed>>
    /\ UNCHANGED orchVars

\* number of initialize calls made on one exchange in one run
MaxInits == 2

\* geometries the owner re-initializes the exchange with when another
\* monitor is selected
ReinitGeoms == {<<1, 1>>, <<2, 1>>}

\* ThreadSafeFrameBuffer::initialize(width, height) on an exchange that is
\* already initialized: the owner has stopped the capture thread, selected
\* another monitor, and keeps the output buffer of its getLatestFrame calls.
\* The slots are allocated anew (the old arrays are not freed); the indices
\* and the availability flag stay.
Reinitialize(w, h) ==
    /\ Alive
    /\ pPc = "idle" /\ cPc = "idle"
    /\ uiPc = "idle" /\ ~m_running
    /\ m_buffers[0].alloc
    /\ liveSlots < 2 * MaxInits
    /\ \E g0 \in Garbage, g1 \in Garbage :
          m_buffers' = [i \in 0..1 |-> IF i = 0 THEN Allocate(w, h, g0)
                                                ELSE Allocate(w, h, g1)]
    /\ m_width' = w
    /\ m_height' = h
    /\ liveSlots' = liveSlots + 2
    /\ UNCHANGED <<m_writeIndex, m_readIndex, m_hasNewFrame, m_swapMutex>>
    /\ UNCHANGED <<producerVars, consumerVars, overlap, pending, lastPushed>>
    /\ UNCHANGED orchVars

\* --------------------------------------------------------------- pushFrame
\* line 30: the frame is refused when it has no data or another geometry
FrameAccepted(frame) ==
    /\ frame.alloc
    /\ frame.width = m_width
    /\ frame.height = m_height

\* the frames a caller may hand to pushFrame: a fresh frame of any input
\* geometry, or a frame without data
InputFrames == {MakeFrame(g[1], g[2], nextId) : g \in InputGeoms} \cup {EmptyFrameBuffer}

\* a pushFrame() that does not compare the frame's width with m_width
P_Enter_NoWidthCheck(frame) ==
    /\ Alive
    /\ pPc = "idle"
    /\ nextId <= MaxFrames
    /\ pFrame' = frame
    /\ IF frame.alloc /\ frame.height = m_height
          THEN /\ writeIdx' = m_writeIndex
               /\ pOff' = 0
               /\ pPc' = "copy"
               /\ nextId' = nextId + 1
               /\ UNCHANGED pRet
          ELSE /\ pRet' = FALSE
               /\ pPc' = "ret"
               /\ UNCHANGED <<writeIdx, pOff, nextId>>
    /\ overlap' = (overlap \/ ConsumerBusy)
    /\ UNCHANGED <<exchangeVars, oldWrite, oldRead, consumerVars, pending, lastPushed>>
    /\ UNCHANGED orchVars

\* lines 28-37: entry, parameter check, load of the write index
P_Enter(frame) ==
    /\ Alive
    /\ pPc = "idle"
    /\ nextId <= MaxFrames
    /\ pFrame' = frame
    /\ IF FrameAccepted(frame)
          THEN /\ writeIdx' = m_writeIndex
               /\ pOff' = 0
               /\ pPc' = "copy"
               /\ nextId' = nextId + 1
               /\ UNCHANGED pRet
          ELSE /\ pRet' = FALSE
               /\ pPc' = "ret"
               /\ UNCHANGED <<writeIdx, pOff, nextId>>
    /\ overlap' = (overlap \/ ConsumerBusy)
    /\ UNCHANGED <<exchangeVars, oldWrite, oldRead, consumerVars, pending, lastPushed>>
    /\ UNCHANGED orchVars

\* a pushFrame() whose lock_guard is taken before the memcpy and released
\* after it
P_Copy_Locked ==
    /\ Alive
    /\ pPc = "copy"
    /\ IF pOff < pFrame.size
          THEN /\ m_buffers' = [m_buffers EXCEPT ![writeIdx].data[pOff + 1] =
                                                     pFrame.data[pOff + 1]]
               /\ pOff' = pOff + 1
               /\ m_swapMutex' = "producer"
               /\ UNCHANGED pPc
          ELSE /\ pPc' = "lock"
               /\ m_swapMutex' = "free"
               /\ UNCHANGED <<m_buffers, pOff>>
    /\ overlap' = (overlap \/ ConsumerBusy)
    /\ UNCHANGED <<m_writeIndex, m_readIndex, m_hasNewFrame,
                   m_width, m_height, liveSlots, pFrame, writeIdx, oldWrite, oldRead, pRet,
                   nextId, consumerVars, pending, lastPushed>>
    /\ UNCHANGED orchVars

\* line 40: memcpy(writeBuffer.data, frame.data, frame.size), one byte a step
P_Copy ==
    /\ Alive
    /\ pPc = "copy"
    /\ IF pOff < pFrame.size
          THEN /\ m_buffers' = [m_buffers EXCEPT ![writeIdx].data[pOff + 1] =
                                                     pFrame.data[pOff + 1]]
               /\ pOff' = pOff + 1
               /\ UNCHANGED pPc
          ELSE /\ pPc' = "lock"
               /\ UNCHANGED <<m_buffers, pOff>>
    /\ overlap' = (overlap \/ ConsumerBusy)
    /\ UNCHANGED <<m_writeIndex, m_readIndex, m_hasNewFrame, m_swapMutex,
                   m_width, m_height, liveSlots, pFrame, writeIdx, oldWrite, oldRead, pRet,
                   nextId, consumerVars, pending, lastPushed>>
    /\ UNCHANGED orchVars

\* lines 44-46: lock_guard taken, both indices loaded
P_Lock ==
    /\ Alive
    /\ pPc = "lock"
    /\ m_swapMutex = "free"
    /\ m_swapMutex' = "producer"
    /\ oldWrite' = m_writeIndex
    /\ oldRead' = m_readIndex
    /\ pPc' = "storeWrite"
    /\ overlap' = (overlap \/ ConsumerBusy)
    /\ UNCHANGED <<m_buffers, m_writeIndex, m_readIndex, m_hasNewFrame,
                   m_width, m_height, liveSlots, pFrame, writeIdx, pOff, pRet, nextId,
                   consumerVars, pending, lastPushed>>
    /\ UNCHANGED orchVars

\* line 48: m_writeIndex.store(oldRead)
P_StoreWrite ==
    /\ Alive
    /\ pPc = "storeWrite"
    /\ m_writeIndex' = oldRead
    /\ pPc' = "storeRead"
    /\ overlap' = (overlap \/ ConsumerBusy)
    /\ UNCHANGED <<m_buffers, m_readIndex, m_hasNewFrame, m_swapMutex,
                   m_width, m_height, liveSlots, pFrame, writeIdx, oldWrite, oldRead, pOff,
                   pRet, nextId, consumerVars, pending, lastPushed>>
    /\ UNCHANGED orchVars

\* a swap that leaves the read index where it was
P_StoreRead_NoSwap ==
    /\ Alive
    /\ pPc = "storeRead"
    /\ m_readIndex' = oldRead
    /\ m_swapMutex' = "free"
    /\ pPc' = "flag"
    /\ overlap' = (overlap \/ ConsumerBusy)
    /\ UNCHANGED <<m_buffers, m_writeIndex, m_hasNewFrame,
                   m_width, m_height, liveSlots, pFrame, writeIdx, oldWrite, oldRead, pOff,
                   pRet, nextId, consumerVars, pending, lastPushed>>
    /\ UNCHANGED orchVars

\* lines 49-50: m_readIndex.store(oldWrite), end of the locked scope
P_StoreRead ==
    /\ Alive
    /\ pPc = "storeRead"
    /\ m_readIndex' = oldWrite
    /\ m_swapMutex' = "free"
    /\ pPc' = "flag"
    /\ overlap' = (overlap \/ ConsumerBusy)
    /\ UNCHANGED <<m_buffers, m_writeIndex, m_hasNewFrame,
                   m_width, m_height, liveSlots, pFrame, writeIdx, oldWrite, oldRead, pOff,
                   pRet, nextId, consumerVars, pending, lastPushed>>
    /\ UNCHANGED orchVars

\* lines 52-53: m_hasNewFrame.store(true); return true
P_Flag ==
    /\ Alive
    /\ pPc = "flag"
    /\ m_hasNewFrame' = TRUE
    /\ pRet' = TRUE
    /\ pPc' = "ret"
    /\ pending' = pending + 1
    /\ lastPushed' = pFrame.data[1]
    /\ overlap' = (overlap \/ ConsumerBusy)
    /\ UNCHANGED <<m_buffers, m_writeIndex, m_readIndex, m_swapMutex,
                   m_width, m_height, liveSlots, pFrame, writeIdx, oldWrite, oldRead, pOff,
                   nextId, consumerVars>>
    /\ UNCHANGED orchVars

\* the caller of pushFrame has its result and goes on
P_Return ==
    /\ Alive
    /\ pPc = "ret"
    /\ pPc' = "idle"
    /\ UNCHANGED <<exchangeVars, pFrame, writeIdx, oldWrite, oldRead, pOff, pRet,
                   nextId, consumerVars, overlap, pending, lastPushed>>
    /\ UNCHANGED orchVars

\* ---------------------------------------------------------- getLatestFrame
\* lines 58-61: the availability flag is loaded
C_Enter ==
    /\ Alive
    /\ cPc = "idle"
    /\ IF m_hasNewFrame
          THEN /\ cPc' = "index"
               /\ UNCHANGED cRet
          ELSE /\ cRet' = FALSE
               /\ cPc' = "ret"
    /\ overlap' = (overlap \/ ProducerBusy)
    /\ UNCHANGED <<exchangeVars, producerVars, readIdx, cOff, outFrame,
                   pending, lastPushed>>
    /\ UNCHANGED orchVars

\* lines 64-71: the read index is loaded, the output allocated if it has no data
C_Index ==
    /\ Alive
    /\ cPc = "index"
    /\ readIdx' = m_readIndex
    /\ IF ~outFrame.alloc
          THEN \E g \in Garbage : outFrame' = Allocate(m_width, m_height, g)
          ELSE UNCHANGED outFrame
    /\ cOff' = 0
    /\ cPc' = "copy"
    /\ overlap' = (overlap \/ ProducerBusy)
    /\ UNCHANGED <<exchangeVars, producerVars, cRet, pending, lastPushed>>
    /\ UNCHANGED orchVars

\* line 74: memcpy(outFrame.data, readBuffer.data, readBuffer.size), one byte
\* a step; lines 75-78: the geometry fields follow the copy. A byte stored
\* past the end of the output's allocation is undefined behaviour: it lands
\* in memory that is not the output's, or the process is killed.
OverflowOutcomes == {"outside", "segv"}

C_Copy ==
    /\ Alive
    /\ cPc = "copy"
    /\ IF cOff < m_buffers[readIdx].size /\ cOff < Len(outFrame.data)
          THEN /\ outFrame' = [outFrame EXCEPT !.data[cOff + 1] =
                                                   m_buffers[readIdx].data[cOff + 1]]
               /\ cOff' = cOff + 1
               /\ UNCHANGED <<cPc, process>>
       ELSE IF cOff < m_buffers[readIdx].size
          THEN /\ \E outcome \in OverflowOutcomes :
                     process' = IF outcome = "segv" THEN "segv" ELSE process
               /\ cOff' = cOff + 1
               /\ UNCHANGED <<cPc, outFrame>>
          ELSE /\ outFrame' = [outFrame EXCEPT !.width = m_buffers[readIdx].width,
                                               !.height = m_buffers[readIdx].height,
                                               !.stride = m_buffers[readIdx].stride,
                                               !.size = m_buffers[readIdx].size]
               /\ cPc' = "clear"
               /\ UNCHANGED <<cOff, process>>
    /\ overlap' = (overlap \/ ProducerBusy)
    /\ UNCHANGED <<exchangeVars, producerVars, readIdx, cRet, pending, lastPushed>>
    /\ UNCHANGED <<platform, ffmpeg, ctVars, recVars, vw, uiVars, clVars, sideVars>>

\* a getLatestFrame() that returns true without clearing the flag
C_Clear_KeepFlag ==
    /\ Alive
    /\ cPc = "clear"
    /\ cRet' = TRUE
    /\ cPc' = "ret"
    /\ overlap' = (overlap \/ ProducerBusy)
    /\ UNCHANGED <<exchangeVars, producerVars, readIdx, cOff, outFrame,
                   pending, lastPushed>>
    /\ UNCHANGED orchVars

\* lines 80-81: m_hasNewFrame.store(false); return true
C_Clear ==
    /\ Alive
    /\ cPc = "clear"
    /\ m_hasNewFrame' = FALSE
    /\ cRet' = TRUE
    /\ cPc' = "ret"
    /\ overlap' = (overlap \/ ProducerBusy)
    /\ UNCHANGED <<m_buffers, m_writeIndex, m_readIndex, m_swapMutex, m_width,
                   m_height, liveSlots, producerVars, readIdx, cOff, outFrame,
                   pending, lastPushed>>
    /\ UNCHANGED orchVars

\* the caller of getLatestFrame has its result and goes on
C_Return ==
    /\ Alive
    /\ cPc = "ret"
    /\ cPc' = "idle"
    /\ pending' = 0
    /\ UNCHANGED <<exchangeVars, producerVars, readIdx, cOff, outFrame, cRet,
                   overlap, lastPushed>>
    /\ UNCHANGED orchVars

\* ============================================================ orchestrator
\* frames of one second counted by the capture loop before the FPS estimate
\* is refreshed
MaxCount == 1

\* geometry reported by the screen-capture provider (getWidth, getHeight)
CaptureGeom == <<1, 1>>
CaptureWidth == CaptureGeom[1]
CaptureHeight == CaptureGeom[2]

\* arguments handed to startRecording
Filenames == {"", "out.mp4"}
FpsValues == {0, 30}
TargetGeoms == {<<0, 2>>, <<1, 1>>, <<2, 2>>}

\* the builds of FFmpegVideoWriter.cpp: #ifdef _WIN32 ... #else ... #endif
Platforms == {"linux", "win32"}

\* VideoConfig() : width(1920), height(1080), fps(30), output("output.mp4")
DefaultVideoConfig ==
    [width |-> 1920, height |-> 1080, fps |-> 30, output |-> "output.mp4"]

\* FFmpegVideoWriter() : m_active(false), m_pipeFd(-1), m_processId(-1)
NewVideoWriter ==
    [exists |-> TRUE, m_active |-> FALSE, m_pipeFd |-> -1, m_processId |-> -1,
     m_config |-> DefaultVideoConfig]

\* no XImage has been converted yet
NoXImage ==
    [width |-> 0, height |-> 0, bits_per_pixel |-> 0, bytes_per_line |-> 0,
     data |-> <<>>]

\* no FFmpegVideoWriter has been created yet
NoVideoWriter == [NewVideoWriter EXCEPT !.exists = FALSE]

\* file descriptor of the pipe's write end and pid of the encoder subprocess
PipeFd == 3
EncoderPid == 100

\* the orchestrator state a failed startRecording has to leave alone
Snapshot ==
    [recording |-> m_recording, writer |-> m_videoWriter,
     filename |-> m_recordingFilename, fps |-> m_recordingFPS,
     width |-> m_recordingWidth, height |-> m_recordingHeight,
     scaling |-> m_useScaling]

NoArgs == [filename |-> "", fps |-> 0, targetWidth |-> 0, targetHeight |-> 0]

\* arguments of the FFmpegVideoWriter method a thread is in: the VideoConfig
\* of initialize; whether frameData is non-null, and dataSize, of writeFrame
NoWArg == [config |-> DefaultVideoConfig, data |-> FALSE, size |-> 0]

\* what the current FFmpegVideoWriter method has asked of the system so far:
\* the result of the ffmpeg -version probe, the pipes created, the encoder
\* processes spawned, the closes of a pipe's write end, the waits for the
\* encoder, the write calls and the bytes the pipe accepted; besides, the
\* pipe descriptors the recorder holds open and whether the session has
\* taken a whole frame
NoCalls ==
    [probe |-> "none", pipes |-> 0, forks |-> 0, closes |-> 0, waits |-> 0,
     writes |-> 0, accepted |-> 0, openFds |-> 0, wrote |-> FALSE]

\* entry of a method: nothing asked yet
NewCall == [NoCalls EXCEPT !.openFds = sys.openFds, !.wrote = sys.wrote]

\* LinuxScreenCapture(): no display, no geometry, all monitors selected, an
\* empty capture region
NewScreenCapture ==
    [m_display |-> FALSE, m_width |-> 0, m_height |-> 0, m_initialized |-> FALSE,
     m_selectedMonitor |-> -1, m_monitors |-> <<>>,
     m_captureX |-> 0, m_captureY |-> 0, m_captureWidth |-> 0,
     m_captureHeight |-> 0]

\* CaptureThread() with the member initializers of CaptureThread.hpp
OrchInit ==
    /\ platform \in Platforms
    /\ process = "alive"
    /\ ffmpeg = "none"
    /\ m_running = FALSE /\ m_shouldStop = FALSE /\ m_recording = FALSE
    /\ m_screenCapture = FALSE /\ m_frameBuffer = FALSE
    /\ m_videoWriter = "null" /\ m_thread = "none"
    /\ m_recordingFilename = "" /\ m_recordingFPS = 30
    /\ m_recordingWidth = 0 /\ m_recordingHeight = 0 /\ m_useScaling = FALSE
    /\ vw = NoVideoWriter
    /\ uiPc = "idle" /\ uiOp = "none" /\ uiArgs = NoArgs /\ uiRet = FALSE
    /\ pre = [recording |-> FALSE, writer |-> "null", filename |-> "", fps |-> 30,
              width |-> 0, height |-> 0, scaling |-> FALSE]
    /\ finalized = FALSE
    /\ clPc = "none" /\ captureBuffer = EmptyFrameBuffer
    /\ scaledBuffer = EmptyFrameBuffer /\ frameCount = 0
    /\ lastWrite = "none" /\ writeOnDead = FALSE
    /\ wPc = "idle" /\ wOp = "none" /\ wArg = NoWArg /\ wRet = FALSE
    /\ wPre = NoVideoWriter /\ sys = NoCalls
    /\ provider = NewScreenCapture /\ scOp = "none" /\ scArg = -1 /\ scRet = FALSE
    /\ scPre = NewScreenCapture
    /\ scBuf = EmptyFrameBuffer /\ scBufPre = EmptyFrameBuffer /\ scAlloc = FALSE
    /\ fsOp = "none" /\ fsSource = EmptyFrameBuffer /\ fsArgs = <<0, 0, 0, 0>>
    /\ fsRet = FALSE /\ fsOut = <<0, 0>>
    /\ fsDstPre = EmptyFrameBuffer /\ fsDst = EmptyFrameBuffer
    /\ cvImage = NoXImage /\ cvOut = EmptyFrameBuffer
    /\ appPc = "boot" /\ isRecording = FALSE /\ selectedMonitorId = -1
    /\ callers = [t \in 1..2 |-> [pc |-> "idle", fps |-> 0, ret |-> FALSE]]
    /\ writers = [o \in 1..2 |-> [exists |-> FALSE, m_active |-> FALSE]]
    /\ held = 0
    /\ encoders = {}

Init == XInit /\ OrchInit


\* ------------------------------------------------------ CaptureThread::start
\* a start() that does not look at m_running
Start_NoRunningCheck(sc, fb) ==
    /\ Alive /\ uiPc = "idle"
    /\ uiOp' = "start"
    /\ uiPc' = "ret"
    /\ IF ~sc \/ ~fb
          THEN /\ uiRet' = FALSE
               /\ UNCHANGED <<ctVars, clPc>>
          ELSE /\ m_screenCapture' = sc
               /\ m_frameBuffer' = fb
               /\ m_shouldStop' = FALSE
               /\ m_running' = TRUE
               /\ m_thread' = "running"
               /\ clPc' = "begin"
               /\ uiRet' = TRUE
               /\ UNCHANGED <<m_recording, m_videoWriter>>
    /\ UNCHANGED <<xvars, envVars, recVars, vw, uiArgs, pre, captureBuffer,
                   scaledBuffer, frameCount, lastWrite, writeOnDead>>
    /\ UNCHANGED finalized
    /\ UNCHANGED sideVars

\* lines 20-44; sc and fb tell whether the two pointers are non-null
Start(sc, fb) ==
    /\ Alive /\ uiPc = "idle"
    /\ uiOp' = "start"
    /\ uiPc' = "ret"
    /\ IF m_running \/ ~sc \/ ~fb
          THEN /\ uiRet' = FALSE
               /\ UNCHANGED <<ctVars, clPc>>
          ELSE /\ m_screenCapture' = sc
               /\ m_frameBuffer' = fb
               /\ m_shouldStop' = FALSE
               /\ m_running' = TRUE
               /\ m_thread' = "running"
               /\ clPc' = "begin"
               /\ uiRet' = TRUE
               /\ UNCHANGED <<m_recording, m_videoWriter>>
    /\ UNCHANGED <<xvars, envVars, recVars, vw, uiArgs, pre, captureBuffer,
                   scaledBuffer, frameCount, lastWrite, writeOnDead>>
    /\ UNCHANGED finalized
    /\ UNCHANGED sideVars

\* ------------------------------------------------------- CaptureThread::stop
\* lines 46-54: nothing to do when not running, else the stop signal is set
Stop_Enter ==
    /\ Alive /\ uiPc = "idle"
    /\ uiOp' = "stop"
    /\ IF ~m_running
          THEN /\ uiPc' = "ret"
               /\ uiRet' = FALSE
               /\ UNCHANGED m_shouldStop
          ELSE /\ m_shouldStop' = TRUE
               /\ uiPc' = "stop_checkrec"
               /\ UNCHANGED uiRet
    /\ UNCHANGED <<xvars, envVars, m_running, m_recording, m_screenCapture,
                   m_frameBuffer, m_videoWriter, m_thread, recVars, vw, uiArgs,
                   pre, clVars>>
    /\ UNCHANGED finalized
    /\ UNCHANGED sideVars

\* a stop() that goes to the join without looking at m_recording
Stop_CheckRecording_Skip ==
    /\ Alive /\ uiPc = "stop_checkrec"
    /\ uiPc' = "stop_join"
    /\ UNCHANGED <<xvars, envVars, ctVars, recVars, vw, uiOp, uiArgs, uiRet, pre,
                   clVars>>
    /\ UNCHANGED finalized
    /\ UNCHANGED sideVars

\* lines 56-60: if (m_recording.load()) stopRecording();
Stop_CheckRecording ==
    /\ Alive /\ uiPc = "stop_checkrec"
    /\ uiPc' = IF m_recording THEN "srec_enter" ELSE "stop_join"
    /\ UNCHANGED <<xvars, envVars, ctVars, recVars, vw, uiOp, uiArgs, uiRet, pre,
                   clVars>>
    /\ UNCHANGED finalized
    /\ UNCHANGED sideVars

\* lines 62-70: join of the capture thread, then m_running.store(false)
Stop_Join ==
    /\ Alive /\ uiPc = "stop_join"
    /\ m_thread # "none" => clPc = "done"
    /\ m_thread' = "none"
    /\ m_running' = FALSE
    /\ uiPc' = "ret"
    /\ uiRet' = TRUE
    /\ UNCHANGED <<xvars, envVars, m_shouldStop, m_recording, m_screenCapture,
                   m_frameBuffer, m_videoWriter, recVars, vw, uiOp, uiArgs, pre,
                   clVars>>
    /\ UNCHANGED finalized
    /\ UNCHANGED sideVars

\* ---------------------------------------------- CaptureThread::stopRecording
\* where stopRecording returns to: into stop() or to the caller
AfterStopRecording == IF uiOp = "stop" THEN "stop_join" ELSE "ret"

\* a call of stopRecording by the controlling thread
StopRecording_Call ==
    /\ Alive /\ uiPc = "idle"
    /\ uiOp' = "stopRecording"
    /\ uiPc' = "srec_enter"
    /\ UNCHANGED <<xvars, envVars, ctVars, recVars, vw, uiArgs, uiRet, pre,
                   clVars>>
    /\ UNCHANGED finalized
    /\ UNCHANGED sideVars

\* a stopRecording() that leaves m_recording set
StopRecording_Enter_KeepFlag ==
    /\ Alive /\ uiPc = "srec_enter"
    /\ IF ~m_recording
          THEN uiPc' = AfterStopRecording
          ELSE uiPc' = "srec_writer"
    /\ uiRet' = FALSE
    /\ UNCHANGED <<xvars, envVars, ctVars, recVars, vw, uiOp,
                   uiArgs, pre, clVars>>
    /\ UNCHANGED finalized
    /\ UNCHANGED sideVars

\* lines 134-139: return when not recording, else m_recording.store(false)
StopRecording_Enter ==
    /\ Alive /\ uiPc = "srec_enter"
    /\ IF ~m_recording
          THEN /\ uiPc' = AfterStopRecording
               /\ UNCHANGED m_recording
          ELSE /\ m_recording' = FALSE
               /\ uiPc' = "srec_writer"
    /\ uiRet' = FALSE
    /\ UNCHANGED <<xvars, envVars, m_running, m_shouldStop, m_screenCapture,
                   m_frameBuffer, m_videoWriter, m_thread, recVars, vw, uiOp,
                   uiArgs, pre, clVars>>
    /\ UNCHANGED finalized
    /\ UNCHANGED sideVars

\* line 141: if (m_videoWriter)
StopRecording_Writer ==
    /\ Alive /\ uiPc = "srec_writer"
    /\ uiPc' = IF m_videoWriter # "null" THEN "fin_enter" ELSE AfterStopRecording
    /\ UNCHANGED <<xvars, envVars, ctVars, recVars, vw, uiOp, uiArgs, uiRet, pre,
                   clVars>>
    /\ UNCHANGED finalized
    /\ UNCHANGED sideVars

\* FFmpegVideoWriter::finalize, lines 299-308, and the first half of
\* terminateFFmpegProcess, lines 318-322 / 334-338: the write end is closed
Finalize_Close ==
    /\ Alive /\ uiPc = "fin_enter"
    /\ IF ~vw.m_active
          THEN /\ uiPc' = "srec_reset"
               /\ UNCHANGED <<vw, finalized>>
          ELSE /\ vw' = [vw EXCEPT !.m_pipeFd = -1]
               /\ finalized' = TRUE
               /\ uiPc' = "fin_wait"
    /\ UNCHANGED <<xvars, envVars, ctVars, recVars, uiOp, uiArgs, uiRet, pre, clVars>>
    /\ UNCHANGED sideVars

\* the wait for the encoder can return: WaitForSingleObject(hProcess, 5000)
\* returns after five seconds at the latest, waitpid(m_processId, &status, 0)
\* returns only once the encoder has exited
WaitCanReturn == platform = "win32" \/ ffmpeg = "exited" \/ vw.m_processId = -1

\* second half of terminateFFmpegProcess, lines 324-331 / 340-357, and
\* m_active = false of finalize, lines 309-312
Finalize_Wait ==
    /\ Alive /\ uiPc = "fin_wait"
    /\ WaitCanReturn
    /\ ffmpeg' = IF vw.m_processId # -1 /\ ffmpeg = "exited" THEN "none" ELSE ffmpeg
    /\ vw' = [vw EXCEPT !.m_processId = -1, !.m_active = FALSE]
    /\ uiPc' = "srec_reset"
    /\ UNCHANGED <<xvars, platform, process, ctVars, recVars, uiOp, uiArgs, uiRet,
                   pre, clVars>>
    /\ UNCHANGED finalized
    /\ UNCHANGED sideVars

\* lines 144-146: m_videoWriter.reset() destroys the writer
StopRecording_Reset ==
    /\ Alive /\ uiPc = "srec_reset"
    /\ vw' = [vw EXCEPT !.exists = FALSE]
    /\ m_videoWriter' = "null"
    /\ uiPc' = AfterStopRecording
    /\ UNCHANGED <<xvars, envVars, m_running, m_shouldStop, m_recording,
                   m_screenCapture, m_frameBuffer, m_thread, recVars, uiOp, uiArgs,
                   uiRet, pre, clVars>>
    /\ UNCHANGED finalized
    /\ UNCHANGED sideVars

\* --------------------------------------------- CaptureThread::startRecording
\* a startRecording() that does not look at m_recording
StartRecording_Enter_NoRecordingCheck(filename, fps, targetWidth, targetHeight) ==
    /\ Alive /\ uiPc = "idle"
    /\ uiOp' = "startRecording"
    /\ uiArgs' = [filename |-> filename, fps |-> fps,
                   targetWidth |-> targetWidth, targetHeight |-> targetHeight]
    /\ pre' = Snapshot
    /\ IF ~m_screenCapture
          THEN /\ uiPc' = "ret"
               /\ uiRet' = FALSE
               /\ UNCHANGED recVars
          ELSE /\ m_recordingFilename' = filename
               /\ m_recordingFPS' = fps
               /\ IF targetWidth = 0 \/ targetHeight = 0
                     THEN /\ m_recordingWidth' = CaptureWidth
                          /\ m_recordingHeight' = CaptureHeight
                          /\ m_useScaling' = FALSE
                     ELSE /\ m_recordingWidth' = targetWidth
                          /\ m_recordingHeight' = targetHeight
                          /\ m_useScaling' = (targetWidth # CaptureWidth
                                              \/ targetHeight # CaptureHeight)
               /\ uiPc' = "sr_create"
               /\ UNCHANGED uiRet
    /\ UNCHANGED <<xvars, envVars, ctVars, vw, clVars>>
    /\ UNCHANGED finalized
    /\ UNCHANGED sideVars

\* a startRecording() that scales whenever a target resolution is given
StartRecording_Enter_AlwaysScale(filename, fps, targetWidth, targetHeight) ==
    /\ Alive /\ uiPc = "idle"
    /\ uiOp' = "startRecording"
    /\ uiArgs' = [filename |-> filename, fps |-> fps,
                   targetWidth |-> targetWidth, targetHeight |-> targetHeight]
    /\ pre' = Snapshot
    /\ IF m_recording \/ ~m_screenCapture
          THEN /\ uiPc' = "ret"
               /\ uiRet' = FALSE
               /\ UNCHANGED recVars
          ELSE /\ m_recordingFilename' = filename
               /\ m_recordingFPS' = fps
               /\ IF targetWidth = 0 \/ targetHeight = 0
                     THEN /\ m_recordingWidth' = CaptureWidth
                          /\ m_recordingHeight' = CaptureHeight
                          /\ m_useScaling' = FALSE
                     ELSE /\ m_recordingWidth' = targetWidth
                          /\ m_recordingHeight' = targetHeight
                          /\ m_useScaling' = TRUE
               /\ uiPc' = "sr_create"
               /\ UNCHANGED uiRet
    /\ UNCHANGED <<xvars, envVars, ctVars, vw, clVars>>
    /\ UNCHANGED finalized
    /\ UNCHANGED sideVars

\* lines 72-108: the two refusals, then the recording parameters are stored
StartRecording_Enter(filename, fps, targetWidth, targetHeight) ==
    /\ Alive /\ uiPc = "idle"
    /\ uiOp' = "startRecording"
    /\ uiArgs' = [filename |-> filename, fps |-> fps,
                   targetWidth |-> targetWidth, targetHeight |-> targetHeight]
    /\ pre' = Snapshot
    /\ IF m_recording \/ ~m_screenCapture
          THEN /\ uiPc' = "ret"
               /\ uiRet' = FALSE
               /\ UNCHANGED recVars
          ELSE /\ m_recordingFilename' = filename
               /\ m_recordingFPS' = fps
               /\ IF targetWidth = 0 \/ targetHeight = 0
                     THEN /\ m_recordingWidth' = CaptureWidth
                          /\ m_recordingHeight' = CaptureHeight
                          /\ m_useScaling' = FALSE
                     ELSE /\ m_recordingWidth' = targetWidth
                          /\ m_recordingHeight' = targetHeight
                          /\ m_useScaling' = (targetWidth # CaptureWidth
                                              \/ targetHeight # CaptureHeight)
               /\ uiPc' = "sr_create"
               /\ UNCHANGED uiRet
    /\ UNCHANGED <<xvars, envVars, ctVars, vw, clVars>>
    /\ UNCHANGED finalized
    /\ UNCHANGED sideVars

\* line 111: m_videoWriter = std::make_unique<FFmpegVideoWriter>()
StartRecording_Create ==
    /\ Alive /\ uiPc = "sr_create"
    /\ vw' = NewVideoWriter
    /\ m_videoWriter' = "obj"
    /\ uiPc' = "sr_init"
    /\ UNCHANGED <<xvars, envVars, m_running, m_shouldStop, m_recording,
                   m_screenCapture, m_frameBuffer, m_thread, recVars, uiOp, uiArgs,
                   uiRet, pre, clVars>>
    /\ UNCHANGED finalized
    /\ UNCHANGED sideVars

\* FFmpegVideoWriter::initialize, lines 80-91: the configuration is usable
ConfigValid(config) ==
    /\ config.width > 0 /\ config.height > 0 /\ config.fps > 0
    /\ config.output # ""

\* outcomes of spawnFFmpegProcess: success, pipe() failed, fork() failed
SpawnOutcomes == {"ok", "pipe", "fork"}

\* FFmpegVideoWriter::initialize, lines 72-116, returns true; probe is the
\* result of checkFFmpegAvailable and spawn that of spawnFFmpegProcess
InitializeOk(config, probe, spawn) ==
    /\ ~vw.m_active
    /\ ConfigValid(config)
    /\ probe
    /\ spawn = "ok"

\* lines 113-119: initialize(config) and, when it fails, m_videoWriter.reset()
StartRecording_Initialize ==
    /\ Alive /\ uiPc = "sr_init"
    /\ \E probe \in BOOLEAN, spawn \in SpawnOutcomes :
          LET config == [width |-> m_recordingWidth, height |-> m_recordingHeight,
                         fps |-> uiArgs.fps, output |-> uiArgs.filename]
          IN  IF InitializeOk(config, probe, spawn)
                 THEN /\ vw' = [vw EXCEPT !.m_active = TRUE, !.m_pipeFd = PipeFd,
                                          !.m_processId = EncoderPid,
                                          !.m_config = config]
                      /\ ffmpeg' = "running"
                      /\ uiPc' = "sr_store"
                      /\ UNCHANGED <<m_videoWriter, uiRet>>
                 ELSE /\ vw' = [vw EXCEPT !.exists = FALSE]
                      /\ m_videoWriter' = "null"
                      /\ uiPc' = "ret"
                      /\ uiRet' = FALSE
                      /\ UNCHANGED ffmpeg
    /\ UNCHANGED <<xvars, platform, process, m_running, m_shouldStop, m_recording,
                   m_screenCapture, m_frameBuffer, m_thread, recVars, uiOp, uiArgs,
                   pre, clVars>>
    /\ UNCHANGED finalized
    /\ UNCHANGED sideVars

\* lines 121-129: m_recording.store(true); return true
StartRecording_Store ==
    /\ Alive /\ uiPc = "sr_store"
    /\ m_recording' = TRUE
    /\ uiPc' = "ret"
    /\ uiRet' = TRUE
    /\ UNCHANGED <<xvars, envVars, m_running, m_shouldStop, m_screenCapture,
                   m_frameBuffer, m_videoWriter, m_thread, recVars, vw, uiOp,
                   uiArgs, pre, clVars>>
    /\ UNCHANGED finalized
    /\ UNCHANGED sideVars

\* the caller of a CaptureThread method has its result and goes on
UI_Return ==
    /\ Alive /\ uiPc = "ret"
    /\ uiPc' = "idle"
    /\ uiOp' = "none"
    /\ uiArgs' = NoArgs
    /\ uiRet' = FALSE
    /\ pre' = Snapshot
    /\ finalized' = FALSE
    /\ UNCHANGED <<xvars, envVars, ctVars, recVars, vw, clVars>>
    /\ UNCHANGED sideVars

\* ------------------------------------------------ CaptureThread::captureLoop
\* lines 151-160: the capture buffer is allocated for the provider's geometry
CL_Begin ==
    /\ Alive /\ clPc = "begin"
    /\ \E g \in Garbage : captureBuffer' = Allocate(CaptureWidth, CaptureHeight, g)
    /\ scaledBuffer' = EmptyFrameBuffer
    /\ frameCount' = 0
    /\ clPc' = "top"
    /\ UNCHANGED <<xvars, envVars, ctVars, recVars, vw, uiVars, lastWrite,
                   writeOnDead>>
    /\ UNCHANGED sideVars

\* line 162: while (!m_shouldStop.load())
CL_Top ==
    /\ Alive /\ clPc = "top"
    /\ clPc' = IF m_shouldStop THEN "done" ELSE "capture"
    /\ UNCHANGED <<xvars, envVars, ctVars, recVars, vw, uiVars, captureBuffer,
                   scaledBuffer, frameCount, lastWrite, writeOnDead>>
    /\ UNCHANGED sideVars

\* a capture loop that counts a frame whose capture failed
CL_Capture_CountFailed ==
    /\ Alive /\ clPc = "capture"
    /\ \E ok \in BOOLEAN :
          IF ok THEN /\ captureBuffer' = MakeFrame(CaptureWidth, CaptureHeight, 1)
                     /\ clPc' = "push"
                ELSE /\ clPc' = "count"
                     /\ UNCHANGED captureBuffer
    /\ UNCHANGED <<xvars, envVars, ctVars, recVars, vw, uiVars, scaledBuffer,
                   frameCount, lastWrite, writeOnDead>>
    /\ UNCHANGED sideVars

\* line 167: m_screenCapture->captureFrame(captureBuffer) succeeds or fails
CL_Capture ==
    /\ Alive /\ clPc = "capture"
    /\ \E ok \in BOOLEAN :
          IF ok THEN /\ captureBuffer' = MakeFrame(CaptureWidth, CaptureHeight, 1)
                     /\ clPc' = "push"
                ELSE /\ clPc' = "pace"
                     /\ UNCHANGED captureBuffer
    /\ UNCHANGED <<xvars, envVars, ctVars, recVars, vw, uiVars, scaledBuffer,
                   frameCount, lastWrite, writeOnDead>>
    /\ UNCHANGED sideVars

\* ThreadSafeFrameBuffer::pushFrame, lines 28-54, run from entry to return
\* with no step of a consumer in between
PushFrameCall(frame) ==
    IF FrameAccepted(frame)
       THEN /\ m_buffers' = [m_buffers EXCEPT ![m_writeIndex].data = frame.data]
            /\ m_writeIndex' = m_readIndex
            /\ m_readIndex' = m_writeIndex
            /\ m_hasNewFrame' = TRUE
            /\ UNCHANGED <<m_swapMutex, m_width, m_height, liveSlots>>
       ELSE UNCHANGED exchangeVars

\* line 170: m_frameBuffer->pushFrame(captureBuffer)
CL_Push ==
    /\ Alive /\ clPc = "push"
    /\ PushFrameCall(captureBuffer)
    /\ clPc' = "checkrec"
    /\ UNCHANGED <<pcVars, envVars, ctVars, recVars, vw, uiVars, captureBuffer,
                   scaledBuffer, frameCount, lastWrite, writeOnDead>>
    /\ UNCHANGED sideVars

\* lines 173-175: if (m_recording.load() && m_videoWriter), if (m_useScaling)
CL_CheckRecording ==
    /\ Alive /\ clPc = "checkrec"
    /\ clPc' = IF m_recording /\ m_videoWriter # "null"
                  THEN (IF m_useScaling THEN "scale" ELSE "write")
                  ELSE "count"
    /\ UNCHANGED <<xvars, envVars, ctVars, recVars, vw, uiVars, captureBuffer,
                   scaledBuffer, frameCount, lastWrite, writeOnDead>>
    /\ UNCHANGED sideVars

\* FrameScaler::scaleFrame, part_002 lines 16-26, accepts its arguments
ScaleArgsValid(source, targetWidth, targetHeight) ==
    /\ source.alloc /\ source.width > 0 /\ source.height > 0
    /\ targetWidth > 0 /\ targetHeight > 0

\* lines 178-179: FrameScaler::scaleFrame(captureBuffer, scaledBuffer, w, h);
\* every byte of the capture carries the same value, and so does its scaling
CL_Scale ==
    /\ Alive /\ clPc = "scale"
    /\ IF ScaleArgsValid(captureBuffer, m_recordingWidth, m_recordingHeight)
          THEN /\ scaledBuffer' = Allocate(m_recordingWidth, m_recordingHeight,
                                           captureBuffer.data[1])
               /\ clPc' = "write_scaled"
          ELSE /\ clPc' = "count"
               /\ UNCHANGED scaledBuffer
    /\ UNCHANGED <<xvars, envVars, ctVars, recVars, vw, uiVars, captureBuffer,
                   frameCount, lastWrite, writeOnDead>>
    /\ UNCHANGED sideVars

\* the session is active, its pipe open, and the encoder has exited
EncoderGone == vw.exists /\ vw.m_active /\ vw.m_pipeFd # -1 /\ ffmpeg # "running"

\* what m_videoWriter->writeFrame(data, size) can do, FFmpegVideoWriter.cpp
\* lines 238-297:
\*   - m_videoWriter was reset by the controlling thread after the check of
\*     line 173: a call through a null or dangling pointer, which faults
\*     ("segv") or reads m_active as false ("fail");
\*   - m_active is false: "fail" (line 240);
\*   - the pipe handle was closed by finalize: write fails with EBADF, "fail";
\*   - the encoder has exited: WriteFile fails ("fail"); write(2) on a pipe
\*     without reader raises SIGPIPE, whose default action ends the process;
\*   - else the frame is written ("ok") or only part of it ("fail").
WriteOutcomes ==
    IF m_videoWriter = "null" \/ ~vw.exists THEN {"segv", "fail"}
    ELSE IF ~vw.m_active THEN {"fail"}
    ELSE IF vw.m_pipeFd = -1 THEN {"fail"}
    ELSE IF ffmpeg # "running"
            THEN (IF platform = "linux" THEN {"sigpipe"} ELSE {"fail"})
    ELSE {"ok", "fail"}

\* lines 181 and 187: the buffer whose data and size go to writeFrame
WrittenFrame == IF clPc = "write_scaled" THEN scaledBuffer ELSE captureBuffer

\* a capture loop that ends the recording itself when a write fails
CL_Write_StopOnFail ==
    /\ Alive /\ clPc \in {"write", "write_scaled"}
    /\ \E outcome \in WriteOutcomes :
          /\ lastWrite' = outcome
          /\ process' = IF outcome \in {"segv", "sigpipe"} THEN outcome ELSE process
          /\ IF outcome = "fail" /\ m_videoWriter # "null"
                THEN /\ m_recording' = FALSE
                     /\ vw' = [vw EXCEPT !.m_pipeFd = -1, !.m_active = FALSE]
                ELSE UNCHANGED <<m_recording, vw>>
    /\ writeOnDead' = EncoderGone
    /\ clPc' = "count"
    /\ UNCHANGED <<xvars, platform, ffmpeg, m_running, m_shouldStop,
                   m_screenCapture, m_frameBuffer, m_videoWriter, m_thread,
                   recVars, uiVars, captureBuffer, scaledBuffer, frameCount>>
    /\ UNCHANGED sideVars

\* lines 181 and 187: the return value of writeFrame is dropped
CL_Write ==
    /\ Alive /\ clPc \in {"write", "write_scaled"}
    /\ \E outcome \in WriteOutcomes :
          /\ lastWrite' = outcome
          /\ process' = IF outcome \in {"segv", "sigpipe"} THEN outcome ELSE process
    /\ writeOnDead' = EncoderGone
    /\ clPc' = "count"
    /\ UNCHANGED <<xvars, platform, ffmpeg, ctVars, recVars, vw, uiVars,
                   captureBuffer, scaledBuffer, frameCount>>
    /\ UNCHANGED sideVars

\* line 191: frameCount++
CL_Count ==
    /\ Alive /\ clPc = "count"
    /\ frameCount < MaxCount
    /\ frameCount' = frameCount + 1
    /\ clPc' = "pace"
    /\ UNCHANGED <<xvars, envVars, ctVars, recVars, vw, uiVars, captureBuffer,
                   scaledBuffer, lastWrite, writeOnDead>>
    /\ UNCHANGED sideVars

\* lines 194-214: the FPS estimate is refreshed once a second has elapsed
\* (at the latest when MaxCount frames were counted), then the loop sleeps for
\* the rest of 1000 / m_recordingFPS milliseconds; the integer division by
\* zero raises SIGFPE
CL_Pace ==
    /\ Alive /\ clPc = "pace"
    /\ \E elapsed \in BOOLEAN :
          /\ frameCount = MaxCount => elapsed
          /\ frameCount' = IF elapsed THEN 0 ELSE frameCount
    /\ IF m_recordingFPS = 0
          THEN /\ process' = "sigfpe"
               /\ UNCHANGED clPc
          ELSE /\ clPc' = "top"
               /\ UNCHANGED process
    /\ lastWrite' = "none"
    /\ writeOnDead' = FALSE
    /\ UNCHANGED <<xvars, platform, ffmpeg, ctVars, recVars, vw, uiVars,
                   captureBuffer, scaledBuffer>>
    /\ UNCHANGED sideVars

\* ------------------------------------------------------------ environment
\* the encoder subprocess exits: after end-of-stream on its input, or earlier
\* on an error of its own
FfmpegExit ==
    /\ ffmpeg = "running"
    /\ ffmpeg' = "exited"
    /\ UNCHANGED <<xvars, platform, process, ctVars, recVars, vw, uiVars, clVars>>
    /\ UNCHANGED sideVars

\* ------------------------------------ FFmpegVideoWriter driven directly
\* what no method of FFmpegVideoWriter touches
captureVars == <<ctVars, recVars, uiVars, clVars, scVars, fsVars, cvVars, appVars,
                 ccVars>>

\* the configurations handed to initialize and the frames handed to writeFrame
WriterGeoms == {<<1, 1>>, <<0, 1>>, <<1, 0>>, <<-1, 1>>}
WriterConfigs ==
    {[width |-> g[1], height |-> g[2], fps |-> f, output |-> o] :
        g \in WriterGeoms, f \in FpsValues, o \in Filenames}
WriterFrames ==
    {[data |-> d, size |-> n] : d \in BOOLEAN, n \in {0, BytesPerPixel, 2 * BytesPerPixel}}

\* FFmpegVideoWriter videoWriter; (tests/test_recording.cpp line 56)
W_Construct ==
    /\ Alive /\ wPc = "idle"
    /\ ~vw.exists /\ m_videoWriter = "null"
    /\ vw' = NewVideoWriter
    /\ UNCHANGED <<xvars, envVars, captureVars, wVars>>

\* initialize, lines 72-91: the session is active or the configuration is
\* unusable
W_Initialize_Enter(config) ==
    /\ Alive /\ wPc = "idle" /\ vw.exists
    /\ wOp' = "initialize"
    /\ wArg' = [NoWArg EXCEPT !.config = config]
    /\ wPre' = vw
    /\ sys' = NewCall
    /\ IF vw.m_active \/ ~ConfigValid(config)
          THEN wPc' = "ret"
          ELSE wPc' = "probe"
    /\ wRet' = FALSE
    /\ UNCHANGED <<xvars, envVars, captureVars, vw>>

\* an initialize that creates the pipe before it probes for ffmpeg
W_Initialize_Probe_AfterPipe ==
    /\ Alive /\ wPc = "probe"
    /\ \E found \in BOOLEAN :
          IF found
             THEN /\ sys' = [sys EXCEPT !.probe = "ok", !.pipes = @ + 1,
                                        !.openFds = @ + 2]
                  /\ vw' = [vw EXCEPT !.m_config = wArg.config]
                  /\ wPc' = "fork"
             ELSE /\ sys' = [sys EXCEPT !.probe = "fail", !.pipes = @ + 1]
                  /\ wPc' = "ret"
                  /\ UNCHANGED vw
    /\ UNCHANGED <<xvars, envVars, captureVars, wOp, wArg, wRet, wPre>>

\* initialize, lines 93-101: checkFFmpegAvailable(), then m_config = config
W_Initialize_Probe ==
    /\ Alive /\ wPc = "probe"
    /\ \E found \in BOOLEAN :
          IF found
             THEN /\ sys' = [sys EXCEPT !.probe = "ok"]
                  /\ vw' = [vw EXCEPT !.m_config = wArg.config]
                  /\ wPc' = "pipe"
             ELSE /\ sys' = [sys EXCEPT !.probe = "fail"]
                  /\ wPc' = "ret"
                  /\ UNCHANGED vw
    /\ UNCHANGED <<xvars, envVars, captureVars, wOp, wArg, wRet, wPre>>

\* spawnFFmpegProcess, lines 127-132 / 177-183: CreatePipe or pipe(); both
\* ends are open in the recorder when it succeeds
W_Spawn_Pipe ==
    /\ Alive /\ wPc = "pipe"
    /\ \E created \in BOOLEAN :
          IF created
             THEN /\ sys' = [sys EXCEPT !.pipes = @ + 1, !.openFds = @ + 2]
                  /\ wPc' = "fork"
             ELSE /\ wPc' = "ret"
                  /\ UNCHANGED sys
    /\ UNCHANGED <<xvars, envVars, captureVars, vw, wOp, wArg, wRet, wPre>>

\* spawnFFmpegProcess, lines 157-174 / 185-234, and initialize, lines 104-115:
\* CreateProcessA or fork(); on failure both ends are closed, on success the
\* read end is closed and the write end and the process kept, m_active = true
W_Spawn_Fork ==
    /\ Alive /\ wPc = "fork"
    /\ \E spawned \in BOOLEAN :
          IF spawned
             THEN /\ sys' = [sys EXCEPT !.forks = @ + 1, !.openFds = @ - 1,
                                        !.wrote = FALSE]
                  /\ ffmpeg' = "running"
                  /\ vw' = [vw EXCEPT !.m_pipeFd = PipeFd,
                                      !.m_processId = EncoderPid,
                                      !.m_active = TRUE]
                  /\ wRet' = TRUE
             ELSE /\ sys' = [sys EXCEPT !.openFds = @ - 2]
                  /\ UNCHANGED <<ffmpeg, vw, wRet>>
    /\ wPc' = "ret"
    /\ UNCHANGED <<xvars, platform, process, captureVars, wOp, wArg, wPre>>

\* writeFrame, lines 238-260: the session is not active or there is no data
W_Write_Enter(frame) ==
    /\ Alive /\ wPc = "idle" /\ vw.exists
    /\ wOp' = "writeFrame"
    /\ wArg' = [NoWArg EXCEPT !.data = frame.data, !.size = frame.size]
    /\ wPre' = vw
    /\ sys' = NewCall
    /\ IF ~vw.m_active \/ ~frame.data \/ frame.size = 0
          THEN wPc' = "ret"
          ELSE wPc' = "write"
    /\ wRet' = FALSE
    /\ UNCHANGED <<xvars, envVars, captureVars, vw>>

\* write(2) on a pipe whose reader has exited raises SIGPIPE, which ends the
\* recorder before the call returns
PipeSignals == vw.m_pipeFd # -1 /\ ffmpeg # "running" /\ platform = "linux"

\* what one WriteFile / write(2) of size bytes returns: -1 for an error, else
\* the number of bytes the pipe accepted
PipeResults(size) ==
    IF vw.m_pipeFd = -1 \/ ffmpeg # "running" THEN {-1} ELSE -1 .. size

\* a writeToPipe that writes again what a short write left over
W_Write_Pipe_Retry ==
    /\ Alive /\ wPc = "write"
    /\ IF PipeSignals
          THEN /\ process' = "sigpipe"
               /\ UNCHANGED <<sys, wRet, wPc>>
          ELSE /\ \E n \in PipeResults(wArg.size) :
                    /\ sys' = [sys EXCEPT
                                 !.writes = IF n \in 0 .. (wArg.size - 1)
                                               THEN @ + 2 ELSE @ + 1,
                                 !.accepted = IF n = -1 THEN 0 ELSE wArg.size,
                                 !.wrote = @ \/ n # -1]
                    /\ wRet' = (n # -1)
               /\ wPc' = "ret"
               /\ UNCHANGED process
    /\ UNCHANGED <<xvars, platform, ffmpeg, captureVars, vw, wOp, wArg, wPre>>

\* writeToPipe, lines 264-297: one WriteFile / write(2); an error and a short
\* write both return false
W_Write_Pipe ==
    /\ Alive /\ wPc = "write"
    /\ IF PipeSignals
          THEN /\ process' = "sigpipe"
               /\ UNCHANGED <<sys, wRet, wPc>>
          ELSE /\ \E n \in PipeResults(wArg.size) :
                    /\ sys' = [sys EXCEPT !.writes = @ + 1,
                                          !.accepted = IF n = -1 THEN 0 ELSE n,
                                          !.wrote = @ \/ n = wArg.size]
                    /\ wRet' = (n = wArg.size)
               /\ wPc' = "ret"
               /\ UNCHANGED process
    /\ UNCHANGED <<xvars, platform, ffmpeg, captureVars, vw, wOp, wArg, wPre>>

\* finalize, lines 299-304: nothing to do on a session that is not active
W_Finalize_Enter ==
    /\ Alive /\ wPc = "idle" /\ vw.exists
    /\ wOp' = "finalize"
    /\ wArg' = NoWArg
    /\ wPre' = vw
    /\ sys' = NewCall
    /\ IF ~vw.m_active
          THEN /\ wPc' = "ret"
               /\ wRet' = TRUE
          ELSE /\ wPc' = "close"
               /\ wRet' = FALSE
    /\ UNCHANGED <<xvars, envVars, captureVars, vw>>

\* a terminateFFmpegProcess that forgets the write end without closing it
W_Finalize_Close_Forget ==
    /\ Alive /\ wPc = "close"
    /\ vw' = [vw EXCEPT !.m_pipeFd = -1]
    /\ wPc' = "wait"
    /\ UNCHANGED <<xvars, envVars, captureVars, wOp, wArg, wRet, wPre, sys>>

\* terminateFFmpegProcess, lines 318-322 / 334-338: the write end is closed
W_Finalize_Close ==
    /\ Alive /\ wPc = "close"
    /\ IF vw.m_pipeFd # -1
          THEN /\ sys' = [sys EXCEPT !.closes = @ + 1, !.openFds = @ - 1]
               /\ vw' = [vw EXCEPT !.m_pipeFd = -1]
          ELSE UNCHANGED <<sys, vw>>
    /\ wPc' = "wait"
    /\ UNCHANGED <<xvars, envVars, captureVars, wOp, wArg, wRet, wPre>>

\* terminateFFmpegProcess, lines 324-331 / 340-357: the wait for the encoder
\* and the release of its handle; finalize, lines 309-312: m_active = false
W_Finalize_Wait ==
    /\ Alive /\ wPc = "wait"
    /\ IF vw.m_processId # -1
          THEN /\ WaitCanReturn
               /\ sys' = [sys EXCEPT !.waits = @ + 1]
               /\ ffmpeg' = IF ffmpeg = "exited" THEN "none" ELSE ffmpeg
          ELSE UNCHANGED <<sys, ffmpeg>>
    /\ vw' = [vw EXCEPT !.m_processId = -1, !.m_active = FALSE]
    /\ wRet' = TRUE
    /\ wPc' = "ret"
    /\ UNCHANGED <<xvars, platform, process, captureVars, wOp, wArg, wPre>>

\* the caller of an FFmpegVideoWriter method has its result and goes on
W_Return ==
    /\ Alive /\ wPc = "ret"
    /\ wPc' = "idle"
    /\ wOp' = "none"
    /\ wArg' = NoWArg
    /\ wRet' = FALSE
    /\ wPre' = NoVideoWriter
    /\ sys' = NewCall
    /\ UNCHANGED <<xvars, envVars, captureVars, vw>>

\* ----------------------------------------------------- LinuxScreenCapture
\* geometries of the root window (the virtual desktop) an X display reports
DesktopGeoms == {<<3, 1>>, <<2, 2>>}

\* the monitors XRandR reports: none (no extension), one, two side by side
MonitorLayouts ==
    {<<>>,
     <<[x |-> 0, y |-> 0, width |-> 2, height |-> 1]>>,
     <<[x |-> 0, y |-> 0, width |-> 2, height |-> 1],
       [x |-> 2, y |-> 0, width |-> 1, height |-> 1]>>}

\* monitor ids handed to selectMonitor
MonitorIds == {-2, -1, 0, 1, 2}

\* an updateCaptureRegion that leaves the origin where it was when all
\* monitors are selected
UpdateCaptureRegion_KeepOrigin(s) ==
    IF s.m_selectedMonitor = -1
       THEN [s EXCEPT !.m_captureWidth = s.m_width,
                      !.m_captureHeight = s.m_height]
    ELSE IF s.m_selectedMonitor >= 0 /\ s.m_selectedMonitor < Len(s.m_monitors)
       THEN LET monitor == s.m_monitors[s.m_selectedMonitor + 1]
            IN  [s EXCEPT !.m_captureX = monitor.x, !.m_captureY = monitor.y,
                          !.m_captureWidth = monitor.width,
                          !.m_captureHeight = monitor.height]
    ELSE s

\* updateCaptureRegion, part_000 lines 640-659
UpdateCaptureRegion(s) ==
    IF s.m_selectedMonitor = -1
       THEN [s EXCEPT !.m_captureX = 0, !.m_captureY = 0,
                      !.m_captureWidth = s.m_width,
                      !.m_captureHeight = s.m_height]
    ELSE IF s.m_selectedMonitor >= 0 /\ s.m_selectedMonitor < Len(s.m_monitors)
       THEN LET monitor == s.m_monitors[s.m_selectedMonitor + 1]
            IN  [s EXCEPT !.m_captureX = monitor.x, !.m_captureY = monitor.y,
                          !.m_captureWidth = monitor.width,
                          !.m_captureHeight = monitor.height]
    ELSE s

\* the users of the provider are not inside one of their calls
ProviderFree == Alive /\ uiPc = "idle" /\ clPc \in {"none", "done"}

\* initialize, part_000 lines 386-426: the display is opened, the root
\* window's geometry read, the monitors enumerated, the region updated
SC_Initialize ==
    /\ ProviderFree
    /\ scOp' = "initialize"
    /\ scArg' = -1
    /\ scPre' = provider
    /\ \E opened \in BOOLEAN, attrs \in BOOLEAN, g \in DesktopGeoms,
          monitors \in MonitorLayouts :
          IF ~opened \/ ~attrs
             THEN /\ provider' = [provider EXCEPT !.m_display = FALSE]
                  /\ scRet' = FALSE
             ELSE /\ provider' = [UpdateCaptureRegion(
                               [provider EXCEPT !.m_display = TRUE,
                                          !.m_width = g[1], !.m_height = g[2],
                                          !.m_monitors = monitors])
                              EXCEPT !.m_initialized = TRUE]
                  /\ scRet' = TRUE
    /\ UNCHANGED <<xvars, envVars, ctVars, recVars, vw, uiVars, clVars, wVars, fsVars,
                   cvVars, appVars, ccVars>>
    /\ scBufPre' = scBuf /\ scAlloc' = FALSE /\ UNCHANGED scBuf

\* a selectMonitor that stores the id before it checks its range
SC_SelectMonitor_StoreFirst(monitorId) ==
    /\ ProviderFree
    /\ scOp' = "selectMonitor"
    /\ scArg' = monitorId
    /\ scPre' = provider
    /\ IF monitorId # -1 /\ (monitorId < 0 \/ monitorId >= Len(provider.m_monitors))
          THEN /\ scRet' = FALSE
               /\ provider' = [provider EXCEPT !.m_selectedMonitor = monitorId]
          ELSE /\ provider' = UpdateCaptureRegion(
                                 [provider EXCEPT !.m_selectedMonitor = monitorId])
               /\ scRet' = TRUE
    /\ UNCHANGED <<xvars, envVars, ctVars, recVars, vw, uiVars, clVars, wVars, fsVars,
                   cvVars, appVars, ccVars>>
    /\ scBufPre' = scBuf /\ scAlloc' = FALSE /\ UNCHANGED scBuf

\* selectMonitor, part_000 lines 617-638
SC_SelectMonitor(monitorId) ==
    /\ ProviderFree
    /\ scOp' = "selectMonitor"
    /\ scArg' = monitorId
    /\ scPre' = provider
    /\ IF monitorId # -1 /\ (monitorId < 0 \/ monitorId >= Len(provider.m_monitors))
          THEN /\ scRet' = FALSE
               /\ UNCHANGED provider
          ELSE /\ provider' = UpdateCaptureRegion(
                                 [provider EXCEPT !.m_selectedMonitor = monitorId])
               /\ scRet' = TRUE
    /\ UNCHANGED <<xvars, envVars, ctVars, recVars, vw, uiVars, clVars, wVars, fsVars,
                   cvVars, appVars, ccVars>>
    /\ scBufPre' = scBuf /\ scAlloc' = FALSE /\ UNCHANGED scBuf

\* the region captureFrame acquires: the selected region of
\* LinuxScreenCapture, the whole screen of WindowsScreenCapture
CaptureRegion(p) ==
    IF platform = "win32" THEN <<p.m_width, p.m_height>>
                          ELSE <<p.m_captureWidth, p.m_captureHeight>>

\* values of the bytes of a captured screen
ScreenBytes == {2, 3}

\* captureFrame frees and allocates the buffer: its geometry is not the
\* region's, or it has no data
NeedsAllocation(buffer, region) ==
    buffer.width # region[1] \/ buffer.height # region[2] \/ ~buffer.alloc

\* a captureFrame that allocates only a buffer without data
SC_CaptureFrame_KeepGeometry ==
    /\ ProviderFree
    /\ scOp' = "captureFrame"
    /\ scArg' = -1
    /\ scPre' = provider
    /\ scBufPre' = scBuf
    /\ \E acquired \in BOOLEAN, converted \in BOOLEAN, g \in Garbage,
          pixel \in ScreenBytes :
          LET region == CaptureRegion(provider)
              needed == ~scBuf.alloc
              fresh  == IF needed THEN Allocate(region[1], region[2], g) ELSE scBuf
          IN  IF ~provider.m_initialized \/ ~acquired
                 THEN /\ scRet' = FALSE
                      /\ scAlloc' = FALSE
                      /\ UNCHANGED scBuf
              ELSE IF platform = "win32" /\ ~converted
                 THEN /\ scRet' = FALSE
                      /\ scAlloc' = needed
                      /\ scBuf' = fresh
              ELSE /\ scRet' = TRUE
                   /\ scAlloc' = needed
                   /\ scBuf' = [fresh EXCEPT !.data = Fill(fresh.size, pixel)]
    /\ UNCHANGED <<xvars, envVars, ctVars, recVars, vw, uiVars, clVars, wVars, fsVars,
                   cvVars, appVars, ccVars>>
    /\ UNCHANGED provider

\* captureFrame: LinuxScreenCapture, part_000 lines 428-478 (XGetImage, then
\* the buffer, then convertToRGB24); WindowsScreenCapture, part_000 lines
\* 269-323 (BitBlt, then the buffer, then GetDIBits, which can fail)
SC_CaptureFrame ==
    /\ ProviderFree
    /\ scOp' = "captureFrame"
    /\ scArg' = -1
    /\ scPre' = provider
    /\ scBufPre' = scBuf
    /\ \E acquired \in BOOLEAN, converted \in BOOLEAN, g \in Garbage,
          pixel \in ScreenBytes :
          LET region == CaptureRegion(provider)
              needed == NeedsAllocation(scBuf, region)
              fresh  == IF needed THEN Allocate(region[1], region[2], g) ELSE scBuf
          IN  IF ~provider.m_initialized \/ ~acquired
                 THEN /\ scRet' = FALSE
                      /\ scAlloc' = FALSE
                      /\ UNCHANGED scBuf
              ELSE IF platform = "win32" /\ ~converted
                 THEN /\ scRet' = FALSE
                      /\ scAlloc' = needed
                      /\ scBuf' = fresh
              ELSE /\ scRet' = TRUE
                   /\ scAlloc' = needed
                   /\ scBuf' = [fresh EXCEPT !.data = Fill(fresh.size, pixel)]
    /\ UNCHANGED <<xvars, envVars, ctVars, recVars, vw, uiVars, clVars, wVars, fsVars,
                   cvVars, appVars, ccVars>>
    /\ UNCHANGED provider

\* shutdown, part_000 lines 661-670
SC_Shutdown ==
    /\ ProviderFree
    /\ scOp' = "shutdown"
    /\ scArg' = -1
    /\ scPre' = provider
    /\ scRet' = TRUE
    /\ provider' = [provider EXCEPT !.m_display = FALSE, !.m_initialized = FALSE]
    /\ UNCHANGED <<xvars, envVars, ctVars, recVars, vw, uiVars, clVars, wVars, fsVars,
                   cvVars, appVars, ccVars>>
    /\ scBufPre' = scBuf /\ scAlloc' = FALSE /\ UNCHANGED scBuf

\* ------------------------------------------------------- specifications
\* steps of the controlling thread inside a call
UIStep ==
    \/ Stop_CheckRecording
    \/ Stop_Join
    \/ StopRecording_Enter
    \/ StopRecording_Writer
    \/ Finalize_Close
    \/ Finalize_Wait
    \/ StopRecording_Reset
    \/ StartRecording_Create
    \/ StartRecording_Initialize
    \/ StartRecording_Store
    \/ UI_Return

\* steps of the capture thread
CLStep ==
    \/ CL_Begin
    \/ CL_Top
    \/ CL_Capture
    \/ CL_Push
    \/ CL_CheckRecording
    \/ CL_Scale
    \/ CL_Write
    \/ CL_Count
    \/ CL_Pace

Next ==
    \/ Initialize(CaptureWidth, CaptureHeight)
    \/ \E sc \in BOOLEAN, fb \in BOOLEAN : Start(sc, fb)
    \/ Stop_Enter
    \/ StopRecording_Call
    \/ \E fn \in Filenames, fps \in FpsValues, tg \in TargetGeoms :
          StartRecording_Enter(fn, fps, tg[1], tg[2])
    \/ Stop_CheckRecording
    \/ Stop_Join
    \/ StopRecording_Enter
    \/ StopRecording_Writer
    \/ Finalize_Close
    \/ Finalize_Wait
    \/ StopRecording_Reset
    \/ StartRecording_Create
    \/ StartRecording_Initialize
    \/ StartRecording_Store
    \/ UI_Return
    \/ CL_Begin
    \/ CL_Top
    \/ CL_Capture
    \/ CL_Push
    \/ CL_CheckRecording
    \/ CL_Scale
    \/ CL_Write
    \/ CL_Count
    \/ CL_Pace
    \/ FfmpegExit

Spec == Init /\ [][Next]_vars

\* both threads are scheduled again and again; nothing makes the encoder exit
FairSpec == Spec /\ WF_vars(UIStep) /\ WF_vars(CLStep)

\* one thread drives one FFmpegVideoWriter, as tests/test_recording.cpp does
WNext ==
    \/ W_Construct
    \/ \E config \in WriterConfigs : W_Initialize_Enter(config)
    \/ W_Initialize_Probe
    \/ W_Spawn_Pipe
    \/ W_Spawn_Fork
    \/ \E frame \in WriterFrames : W_Write_Enter(frame)
    \/ W_Write_Pipe
    \/ W_Finalize_Enter
    \/ W_Finalize_Close
    \/ W_Finalize_Wait
    \/ W_Return
    \/ FfmpegExit

SpecW == Init /\ [][WNext]_vars

\* one thread drives one LinuxScreenCapture
MNext ==
    \/ SC_Initialize
    \/ \E monitorId \in MonitorIds : SC_SelectMonitor(monitorId)
    \/ SC_CaptureFrame
    \/ SC_Shutdown

SpecM == Init /\ [][MNext]_vars

\* ------------------------------------------------------------ Application
\* the monitors of the application's screen: two mirrored monitors of the
\* capture geometry
AppMonitors ==
    <<[x |-> 0, y |-> 0, width |-> CaptureWidth, height |-> CaptureHeight],
      [x |-> 0, y |-> 0, width |-> CaptureWidth, height |-> CaptureHeight]>>

\* part_003 lines 183-206: the provider is created and initialized, the
\* exchange initialized with its geometry; no other thread exists yet
App_InitializeDependencies ==
    /\ Alive /\ appPc = "boot" /\ uiPc = "idle"
    /\ ~provider.m_initialized /\ ~m_buffers[0].alloc
    /\ \E ok \in BOOLEAN, g0 \in Garbage, g1 \in Garbage :
          IF ok
             THEN /\ provider' =
                        [UpdateCaptureRegion(
                            [provider EXCEPT !.m_display = TRUE,
                                             !.m_width = CaptureWidth,
                                             !.m_height = CaptureHeight,
                                             !.m_monitors = AppMonitors])
                         EXCEPT !.m_initialized = TRUE]
                  /\ m_buffers' = [i \in 0..1 |->
                                      IF i = 0 THEN Allocate(CaptureWidth, CaptureHeight, g0)
                                               ELSE Allocate(CaptureWidth, CaptureHeight, g1)]
                  /\ m_width' = CaptureWidth
                  /\ m_height' = CaptureHeight
                  /\ liveSlots' = liveSlots + 2
                  /\ appPc' = "starting"
             ELSE /\ appPc' = "exit"
                  /\ UNCHANGED <<provider, m_buffers, m_width, m_height, liveSlots>>
    /\ UNCHANGED <<m_writeIndex, m_readIndex, m_hasNewFrame, m_swapMutex, pcVars>>
    /\ UNCHANGED <<envVars, ctVars, recVars, vw, uiVars, clVars, wVars, fsVars, cvVars>>
    /\ UNCHANGED <<scOp, scArg, scRet, scPre, scBuf, scBufPre, scAlloc>>
    /\ UNCHANGED <<isRecording, selectedMonitorId>>
    /\ UNCHANGED ccVars

\* lines 241-244: "Start Recording" is shown while the UI flag is clear
App_PressStart ==
    /\ Alive /\ appPc = "idle" /\ ~isRecording
    /\ appPc' = "rec_start"
    /\ UNCHANGED <<xvars, envVars, ctVars, recVars, vw, uiVars, clVars, wVars, scVars,
                   fsVars, cvVars, isRecording, selectedMonitorId>>
    /\ UNCHANGED ccVars
    /\ UNCHANGED ccVars

\* lines 265-268: "Stop Recording" is shown while the UI flag is set
App_PressStop ==
    /\ Alive /\ appPc = "idle" /\ isRecording
    /\ appPc' = "rec_stop"
    /\ UNCHANGED <<xvars, envVars, ctVars, recVars, vw, uiVars, clVars, wVars, scVars,
                   fsVars, cvVars, isRecording, selectedMonitorId>>
    /\ UNCHANGED ccVars
    /\ UNCHANGED ccVars

\* lines 286-293 and 314-322: another entry of the monitor combo is picked
App_PickMonitor(id) ==
    /\ Alive /\ appPc = "idle"
    /\ id # selectedMonitorId
    /\ liveSlots < 2 * MaxInits
    /\ selectedMonitorId' = id
    /\ appPc' = "sw_stop"
    /\ UNCHANGED <<xvars, envVars, ctVars, recVars, vw, uiVars, clVars, wVars, scVars,
                   fsVars, cvVars, isRecording>>
    /\ UNCHANGED ccVars

\* a monitor switch that reconfigures without stopping the capture thread
App_SelectMonitor_WithoutStop ==
    /\ Alive /\ appPc = "sw_stop" /\ uiPc = "idle"
    /\ provider' = IF selectedMonitorId # -1
                      /\ (selectedMonitorId < 0
                          \/ selectedMonitorId >= Len(provider.m_monitors))
                      THEN provider
                      ELSE UpdateCaptureRegion(
                              [provider EXCEPT !.m_selectedMonitor = selectedMonitorId])
    /\ appPc' = "sw_init"
    /\ UNCHANGED <<xvars, envVars, ctVars, recVars, vw, uiVars, clVars, wVars, fsVars,
                   cvVars>>
    /\ UNCHANGED <<scOp, scArg, scRet, scPre, scBuf, scBufPre, scAlloc>>
    /\ UNCHANGED <<isRecording, selectedMonitorId>>
    /\ UNCHANGED ccVars

\* lines 299 and 328: screenCapture->selectMonitor(selectedMonitorId), after
\* captureThread.stop() has returned
App_SelectMonitor ==
    /\ Alive /\ appPc = "sw_select" /\ uiPc = "idle"
    /\ provider' = IF selectedMonitorId # -1
                      /\ (selectedMonitorId < 0
                          \/ selectedMonitorId >= Len(provider.m_monitors))
                      THEN provider
                      ELSE UpdateCaptureRegion(
                              [provider EXCEPT !.m_selectedMonitor = selectedMonitorId])
    /\ appPc' = "sw_init"
    /\ UNCHANGED <<xvars, envVars, ctVars, recVars, vw, uiVars, clVars, wVars, fsVars,
                   cvVars>>
    /\ UNCHANGED <<scOp, scArg, scRet, scPre, scBuf, scBufPre, scAlloc>>
    /\ UNCHANGED <<isRecording, selectedMonitorId>>
    /\ UNCHANGED ccVars

\* lines 302 and 331: frameBuffer.initialize(getWidth(), getHeight())
App_InitializeFrameBuffer ==
    /\ Alive /\ appPc = "sw_init" /\ uiPc = "idle"
    /\ \E g0 \in Garbage, g1 \in Garbage :
          LET region == CaptureRegion(provider)
          IN  /\ m_buffers' = [i \in 0..1 |->
                                  IF i = 0 THEN Allocate(region[1], region[2], g0)
                                           ELSE Allocate(region[1], region[2], g1)]
              /\ m_width' = region[1]
              /\ m_height' = region[2]
    /\ liveSlots' = liveSlots + 2
    /\ appPc' = "sw_start"
    /\ UNCHANGED <<m_writeIndex, m_readIndex, m_hasNewFrame, m_swapMutex, pcVars>>
    /\ UNCHANGED <<envVars, ctVars, recVars, vw, uiVars, clVars, wVars, scVars, fsVars,
                   cvVars, isRecording, selectedMonitorId>>
    /\ UNCHANGED ccVars

\* the call of a CaptureThread method made from renderUI or from
\* initializeDependencies has returned: lines 209-213 (start), 252-262
\* (startRecording), 269-270 (stopRecording), 296 and 325 (stop), 305 and 334
\* (start, whose result is dropped)
App_Return ==
    /\ Alive /\ uiPc = "ret"
    /\ appPc \in {"starting", "rec_start", "rec_stop", "sw_stop", "sw_start"}
    /\ appPc' = IF appPc = "starting" THEN (IF uiRet THEN "idle" ELSE "exit")
                ELSE IF appPc = "sw_stop" THEN "sw_select"
                ELSE "idle"
    /\ isRecording' = IF appPc = "rec_start" THEN uiRet
                      ELSE IF appPc = "rec_stop" THEN FALSE
                      ELSE isRecording
    /\ uiPc' = "idle"
    /\ uiOp' = "none"
    /\ uiArgs' = NoArgs
    /\ uiRet' = FALSE
    /\ pre' = Snapshot
    /\ finalized' = FALSE
    /\ UNCHANGED <<xvars, envVars, ctVars, recVars, vw, clVars, wVars, scVars, fsVars,
                   cvVars, selectedMonitorId>>
    /\ UNCHANGED ccVars

\* the application: its UI thread in initializeDependencies and renderUI,
\* inside the CaptureThread methods it calls, the capture thread it starts
\* and the encoder subprocess
ANext ==
    \/ App_InitializeDependencies
    \/ appPc \in {"starting", "sw_start"} /\ Start(TRUE, TRUE)
    \/ App_PressStart
    \/ appPc = "rec_start" /\ StartRecording_Enter("out.mp4", 30, 0, 0)
    \/ App_PressStop
    \/ appPc = "rec_stop" /\ StopRecording_Call
    \/ \E id \in -1..(Len(AppMonitors) - 1) : App_PickMonitor(id)
    \/ appPc = "sw_stop" /\ Stop_Enter
    \/ App_SelectMonitor
    \/ App_InitializeFrameBuffer
    \/ App_Return
    \/ Stop_CheckRecording
    \/ Stop_Join
    \/ StopRecording_Enter
    \/ StopRecording_Writer
    \/ Finalize_Close
    \/ Finalize_Wait
    \/ StopRecording_Reset
    \/ StartRecording_Create
    \/ StartRecording_Initialize
    \/ StartRecording_Store
    \/ CL_Begin
    \/ CL_Top
    \/ CL_Capture
    \/ CL_Push
    \/ CL_CheckRecording
    \/ CL_Write
    \/ CL_Count
    \/ CL_Pace
    \/ FfmpegExit

SpecA == Init /\ [][ANext]_vars

\* ------------------------------------- startRecording from two threads
\* the threads that call startRecording, and the frame rates they pass
Callers == 1..2
CallFps == {0, 30}

\* outcomes of the unsynchronized assignment to the unique_ptr m_videoWriter
\* while the other caller is inside startRecording: the replaced object is
\* destroyed, or the racing stores lose it and it stays alive, unowned
AssignOutcomes == {"released", "leaked"}

\* ~FFmpegVideoWriter on object o (FFmpegVideoWriter.cpp lines 35-41): an
\* active writer is finalized, which ends its subprocess
WritersAfterDelete(o) ==
    [writers EXCEPT ![o] = [exists |-> FALSE, m_active |-> FALSE]]

\* CaptureThread.cpp lines 75-109: the two early returns, then the recording
\* parameters are stored (native resolution: no target size is passed)
Call_Enter(t, fps) ==
    /\ Alive /\ callers[t].pc = "idle"
    /\ IF m_recording \/ ~m_screenCapture
          THEN /\ callers' = [callers EXCEPT ![t] = [pc |-> "ret", fps |-> fps,
                                                     ret |-> FALSE]]
               /\ UNCHANGED recVars
          ELSE /\ callers' = [callers EXCEPT ![t] = [pc |-> "create", fps |-> fps,
                                                     ret |-> FALSE]]
               /\ m_recordingFilename' = "out.mp4"
               /\ m_recordingFPS' = fps
               /\ m_recordingWidth' = CaptureWidth
               /\ m_recordingHeight' = CaptureHeight
               /\ m_useScaling' = FALSE
    /\ UNCHANGED <<xvars, envVars, ctVars, vw, uiVars, clVars, wVars, scVars, fsVars,
                   cvVars, appVars, writers, held, encoders>>

\* line 111: m_videoWriter = std::make_unique<FFmpegVideoWriter>(); the
\* object owned before is destroyed by the assignment
Call_Create(t) ==
    /\ Alive /\ callers[t].pc = "create"
    /\ \E outcome \in AssignOutcomes :
          /\ outcome = "leaked" =>
                (held # 0 /\ \E u \in Callers \ {t} : callers[u].pc \in {"init", "store"})
          /\ LET kept == IF held = 0 \/ outcome = "leaked"
                            THEN writers ELSE WritersAfterDelete(held)
             IN  /\ writers' = [kept EXCEPT ![t] = [exists |-> TRUE,
                                                      m_active |-> FALSE]]
                 /\ encoders' = IF held = 0 \/ outcome = "leaked"
                                   THEN encoders ELSE encoders \ {held}
    /\ held' = t
    /\ m_videoWriter' = "obj"
    /\ callers' = [callers EXCEPT ![t].pc = "init"]
    /\ UNCHANGED <<xvars, envVars, m_running, m_shouldStop, m_recording,
                   m_screenCapture, m_frameBuffer, m_thread, recVars, vw, uiVars,
                   clVars, wVars, scVars, fsVars, cvVars, appVars>>

\* lines 113-119: m_videoWriter->initialize(config) on the object the
\* pointer holds now and, when it fails, m_videoWriter.reset()
Call_Initialize(t) ==
    /\ Alive /\ callers[t].pc = "init"
    /\ IF held = 0
          THEN \* the other caller has reset the pointer: null dereference
               /\ process' = "segv"
               /\ UNCHANGED <<callers, writers, held, encoders, m_videoWriter>>
          ELSE \E probe \in BOOLEAN, spawn \in SpawnOutcomes :
                  LET config == [width |-> m_recordingWidth,
                                 height |-> m_recordingHeight,
                                 fps |-> callers[t].fps, output |-> "out.mp4"]
                  IN  IF ~writers[held].m_active /\ ConfigValid(config)
                         /\ probe /\ spawn = "ok"
                         THEN /\ writers' = [writers EXCEPT ![held].m_active = TRUE]
                              /\ encoders' = encoders \cup {held}
                              /\ callers' = [callers EXCEPT ![t].pc = "store"]
                              /\ UNCHANGED <<held, m_videoWriter, process>>
                         ELSE /\ writers' = WritersAfterDelete(held)
                              /\ encoders' = encoders \ {held}
                              /\ held' = 0
                              /\ m_videoWriter' = "null"
                              /\ callers' = [callers EXCEPT ![t].pc = "ret",
                                                            ![t].ret = FALSE]
                              /\ UNCHANGED process
    /\ UNCHANGED <<xvars, platform, ffmpeg, m_running, m_shouldStop, m_recording,
                   m_screenCapture, m_frameBuffer, m_thread, recVars, vw, uiVars,
                   clVars, wVars, scVars, fsVars, cvVars, appVars>>

\* lines 121-129: m_recording.store(true); return true
Call_Store(t) ==
    /\ Alive /\ callers[t].pc = "store"
    /\ m_recording' = TRUE
    /\ callers' = [callers EXCEPT ![t].pc = "ret", ![t].ret = TRUE]
    /\ UNCHANGED <<xvars, envVars, m_running, m_shouldStop, m_screenCapture,
                   m_frameBuffer, m_videoWriter, m_thread, recVars, vw, uiVars,
                   clVars, wVars, scVars, fsVars, cvVars, appVars, writers, held,
                   encoders>>

\* two threads calling startRecording once each, before or after the
\* capture thread was started; the capture loop's own steps are those of Spec
CNext ==
    \/ Start(TRUE, TRUE)
    \/ UI_Return
    \/ \E t \in Callers, fps \in CallFps : Call_Enter(t, fps)
    \/ \E t \in Callers : Call_Create(t)
    \/ \E t \in Callers : Call_Initialize(t)
    \/ \E t \in Callers : Call_Store(t)

SpecC == Init /\ [][CNext]_vars

\* ------------------------------------------------------------- FrameScaler
Min(a, b) == IF a < b THEN a ELSE b
Max(a, b) == IF a > b THEN a ELSE b

\* the colours of the pixels of a source frame (R, G, B)
Colours == {<<0, 128, 255>>, <<255, 1, 64>>}

\* geometries of the source frames; with the target dimensions below every
\* ratio is 1/2, 1 or 2, for which the single-precision arithmetic of
\* scaleFrame and bilinearSample is exact
ScalerGeoms == {<<1, 1>>, <<2, 1>>, <<2, 2>>}

\* target dimensions handed to scaleFrame
TargetDims == {<<1, 1>>, <<2, 1>>, <<1, 2>>, <<2, 2>>, <<0, 2>>, <<2, 0>>}

\* a frame of w x h pixels; pix[n] is the colour of pixel n in row order
PixelFrame(w, h, pix) ==
    [alloc |-> TRUE,
     data |-> [i \in 1..(w * BytesPerPixel * h) |->
                  pix[((i - 1) \div BytesPerPixel) + 1][((i - 1) % BytesPerPixel) + 1]],
     width |-> w, height |-> h, stride |-> w * BytesPerPixel,
     size |-> w * BytesPerPixel * h]

\* the frames handed to scaleFrame as source: every frame of the geometries
\* above, and a frame without data
ScalerSources ==
    {EmptyFrameBuffer} \cup
    UNION {{PixelFrame(g[1], g[2], pix) : pix \in [1..(g[1] * g[2]) -> Colours]} :
              g \in ScalerGeoms}

\* static_cast<uint8_t>(std::round(n / d)) for n >= 0, d > 0: halves round
\* away from zero
RoundDiv(n, d) == ((2 * n) + d) \div (2 * d)

\* sample corners whose second corner lies before the first
SampleCorner_Before(coord, dim) ==
    LET c0r == coord[1] \div coord[2]
    IN  <<Max(0, Min(c0r, dim - 1)), Max(c0r - 1, 0)>>

\* FrameScaler::bilinearSample, lines 98-104, for one axis: the two sample
\* positions <<x0, x1>> (or <<y0, y1>>) for the coordinate coord[1] / coord[2]
\* in a source of dim columns (or rows)
SampleCorner(coord, dim) ==
    LET c0r == coord[1] \div coord[2]
    IN  <<Max(0, Min(c0r, dim - 1)), Min(c0r + 1, dim - 1)>>

\* a bilinearSample whose interpolation weights are exchanged
BilinearSample_SwappedWeights(source, srcWidth, srcHeight, x, y, channel) ==
    LET x0r == x[1] \div x[2]
        y0r == y[1] \div y[2]
        x1 == Min(x0r + 1, srcWidth - 1)
        y1 == Min(y0r + 1, srcHeight - 1)
        x0 == Max(0, Min(x0r, srcWidth - 1))
        y0 == Max(0, Min(y0r, srcHeight - 1))
        fx == x[1] - (x0 * x[2])
        fy == y[1] - (y0 * y[2])
        p00 == source[((y0 * srcWidth + x0) * 3) + channel + 1]
        p10 == source[((y0 * srcWidth + x1) * 3) + channel + 1]
        p01 == source[((y1 * srcWidth + x0) * 3) + channel + 1]
        p11 == source[((y1 * srcWidth + x1) * 3) + channel + 1]
        top == (p00 * fx) + (p10 * (x[2] - fx))
        bottom == (p01 * fx) + (p11 * (x[2] - fx))
    IN  RoundDiv((top * fy) + (bottom * (y[2] - fy)), x[2] * y[2])

\* FrameScaler::bilinearSample(source, srcWidth, srcHeight, x, y, channel);
\* the coordinates x and y are the fractions x[1] / x[2] and y[1] / y[2], the
\* weights fx / x[2] and fy / y[2], source is the byte array (index 0 of the
\* code is element 1)
BilinearSample(source, srcWidth, srcHeight, x, y, channel) ==
    LET x0 == SampleCorner(x, srcWidth)[1]
        x1 == SampleCorner(x, srcWidth)[2]
        y0 == SampleCorner(y, srcHeight)[1]
        y1 == SampleCorner(y, srcHeight)[2]
        fx == x[1] - (x0 * x[2])
        fy == y[1] - (y0 * y[2])
        p00 == source[((y0 * srcWidth + x0) * 3) + channel + 1]
        p10 == source[((y0 * srcWidth + x1) * 3) + channel + 1]
        p01 == source[((y1 * srcWidth + x0) * 3) + channel + 1]
        p11 == source[((y1 * srcWidth + x1) * 3) + channel + 1]
        top == (p00 * (x[2] - fx)) + (p10 * fx)
        bottom == (p01 * (x[2] - fx)) + (p11 * fx)
    IN  RoundDiv((top * (y[2] - fy)) + (bottom * fy), x[2] * y[2])

\* FrameScaler::scaleFrame(source, destination, targetWidth, targetHeight):
\* its result and the destination after the call
ScaleFrame(source, destination, targetWidth, targetHeight) ==
    IF ~source.alloc \/ source.width <= 0 \/ source.height <= 0
       THEN [ret |-> FALSE, destination |-> destination]
    ELSE IF targetWidth <= 0 \/ targetHeight <= 0
       THEN [ret |-> FALSE, destination |-> destination]
    ELSE LET dst == IF \/ ~destination.alloc
                       \/ destination.width # targetWidth
                       \/ destination.height # targetHeight
                       THEN Allocate(targetWidth, targetHeight, 0)
                       ELSE destination
             sample(i) ==
                 LET pixel == (i - 1) \div 3
                     x == pixel % targetWidth
                     y == pixel \div targetWidth
                 IN  BilinearSample(source.data, source.width, source.height,
                                    <<x * source.width, targetWidth>>,
                                    <<y * source.height, targetHeight>>,
                                    (i - 1) % 3)
         IN  [ret |-> TRUE,
              destination |-> [dst EXCEPT !.data = [i \in 1..dst.size |-> sample(i)]]]

\* FrameScaler::calculateScaledDimensions(sourceWidth, sourceHeight, maxWidth,
\* maxHeight, outWidth, outHeight) for positive arguments: <<outWidth,
\* outHeight>>. The aspect ratio is the fraction sourceWidth / sourceHeight;
\* static_cast<int> truncates.
CalculateScaledDimensions(sourceWidth, sourceHeight, maxWidth, maxHeight) ==
    LET w0 == maxWidth
        h0 == maxHeight
        w1 == IF w0 > maxWidth THEN maxWidth ELSE w0
        h1 == IF w0 > maxWidth THEN (maxWidth * sourceHeight) \div sourceWidth ELSE h0
        h2 == IF h1 > maxHeight THEN maxHeight ELSE h1
        w2 == IF h1 > maxHeight THEN (maxHeight * sourceWidth) \div sourceHeight ELSE w1
    IN  <<(w2 \div 2) * 2, (h2 \div 2) * 2>>

\* source and maximum dimensions handed to calculateScaledDimensions
SourceDims == {<<1920, 1080>>, <<1080, 1920>>, <<4, 2>>, <<3, 3>>}
MaxDims == {<<1280, 1280>>, <<1280, 720>>, <<1920, 1080>>, <<3, 5>>, <<2, 2>>}

\* the destination buffers handed to scaleFrame: one without data, and the
\* result of an earlier call
ScalerDestinations ==
    {EmptyFrameBuffer, PixelFrame(1, 1, [n \in 1..1 |-> <<255, 1, 64>>])}

\* a caller scales a frame into a destination buffer
FS_ScaleFrame(source, destination, targetWidth, targetHeight) ==
    /\ Alive
    /\ LET r == ScaleFrame(source, destination, targetWidth, targetHeight)
       IN  /\ fsRet' = r.ret
           /\ fsDst' = r.destination
    /\ fsDstPre' = destination
    /\ fsOp' = "scaleFrame"
    /\ fsSource' = source
    /\ fsArgs' = <<source.width, source.height, targetWidth, targetHeight>>
    /\ fsOut' = <<0, 0>>
    /\ cvImage' = NoXImage /\ cvOut' = EmptyFrameBuffer
    /\ UNCHANGED <<xvars, envVars, ctVars, recVars, vw, uiVars, clVars, wVars, scVars,
                   appVars, ccVars>>

\* a caller asks for the dimensions of a scaled frame
FS_CalculateScaledDimensions(sourceWidth, sourceHeight, maxWidth, maxHeight) ==
    /\ Alive
    /\ fsOut' = CalculateScaledDimensions(sourceWidth, sourceHeight, maxWidth, maxHeight)
    /\ fsOp' = "calculateScaledDimensions"
    /\ fsSource' = EmptyFrameBuffer
    /\ fsArgs' = <<sourceWidth, sourceHeight, maxWidth, maxHeight>>
    /\ fsRet' = FALSE
    /\ fsDstPre' = EmptyFrameBuffer
    /\ fsDst' = EmptyFrameBuffer
    /\ cvImage' = NoXImage /\ cvOut' = EmptyFrameBuffer
    /\ UNCHANGED <<xvars, envVars, ctVars, recVars, vw, uiVars, clVars, wVars, scVars,
                   appVars, ccVars>>

\* ------------------------------------------------------- convertToRGB24
\* the images XGetImage returns for a capture region of w x h pixels: 32, 24
\* or 16 bits per pixel, rows with or without padding bytes; base is the
\* value of the image's first byte and every other byte is its offset more
XImageWidths == {1, 2}
XImageHeights == {1, 2}
XImages ==
    {[width |-> w, height |-> h, bits_per_pixel |-> bpp,
      bytes_per_line |-> (w * (bpp \div 8)) + pad,
      data |-> [i \in 1..(((w * (bpp \div 8)) + pad) * h) |-> base + i - 1]] :
        w \in XImageWidths, h \in XImageHeights, bpp \in {16, 24, 32},
        pad \in {0, 1}, base \in {10, 100}}

\* a convertToRGB24 that takes the rows of the image to be packed
ConvertToRGB24_PackedRows(ximage, buffer) ==
    LET bytesPerPixel == ximage.bits_per_pixel \div 8
        src(n) == ximage.data[n + 1]
        row(y) == y * ximage.width * bytesPerPixel
        out(i) ==
            LET pixel == (i - 1) \div 3
                x == pixel % ximage.width
                y == pixel \div ximage.width
                c == (i - 1) % 3
                at == row(y) + (x * bytesPerPixel)
                value == src(at) + (256 * src(at + 1))
            IN  IF ximage.bits_per_pixel = 32 \/ ximage.bits_per_pixel = 24
                   THEN src(at + (2 - c))
                ELSE IF c = 0 THEN (value \div 65536) % 256
                ELSE IF c = 1 THEN (value \div 256) % 256
                ELSE value % 256
    IN  [buffer EXCEPT !.data = [i \in 1..(ximage.width * ximage.height * 3) |-> out(i)]]

\* LinuxScreenCapture::convertToRGB24(ximage, buffer): the bytes of buffer
\* after the call; src[n] of the code is ximage.data[n + 1]. The fallback
\* reads the pixel of a 16-bit image, least significant byte first, with
\* XGetPixel.
ConvertToRGB24(ximage, buffer) ==
    LET bytesPerPixel == ximage.bits_per_pixel \div 8
        src(n) == ximage.data[n + 1]
        row(y) == y * ximage.bytes_per_line
        out(i) ==
            LET pixel == (i - 1) \div 3
                x == pixel % ximage.width
                y == pixel \div ximage.width
                c == (i - 1) % 3
                at == row(y) + (x * bytesPerPixel)
                value == src(at) + (256 * src(at + 1))
            IN  IF ximage.bits_per_pixel = 32 \/ ximage.bits_per_pixel = 24
                   THEN src(at + (2 - c))
                ELSE IF c = 0 THEN (value \div 65536) % 256
                ELSE IF c = 1 THEN (value \div 256) % 256
                ELSE value % 256
    IN  [buffer EXCEPT !.data = [i \in 1..(ximage.width * ximage.height * 3) |-> out(i)]]

\* lines 455-462 of captureFrame: the buffer is allocated for the capture
\* region, which is the image's, and filled from the image
SC_ConvertToRGB24(ximage) ==
    /\ Alive /\ platform = "linux"
    /\ cvImage' = ximage
    /\ \E g \in Garbage :
          cvOut' = ConvertToRGB24(ximage, Allocate(ximage.width, ximage.height, g))
    /\ fsOp' = "convertToRGB24" /\ fsSource' = EmptyFrameBuffer
    /\ fsArgs' = <<0, 0, 0, 0>> /\ fsRet' = FALSE /\ fsOut' = <<0, 0>>
    /\ fsDstPre' = EmptyFrameBuffer /\ fsDst' = EmptyFrameBuffer
    /\ UNCHANGED <<xvars, envVars, ctVars, recVars, vw, uiVars, clVars, wVars, scVars,
                   appVars, ccVars>>

SNext ==
    \/ \E ximage \in XImages : SC_ConvertToRGB24(ximage)
    \/ \E source \in ScalerSources, destination \in ScalerDestinations,
          td \in TargetDims :
          FS_ScaleFrame(source, destination, td[1], td[2])
    \/ \E sd \in SourceDims, md \in MaxDims :
          FS_CalculateScaledDimensions(sd[1], sd[2], md[1], md[2])

SpecS == Init /\ [][SNext]_vars

\* ================================================= claims: the orchestrator
\* C4: when writeFrame returns false in an iteration of the capture loop, the
\* recording session is stopped: once the loop has gone past the failed write,
\* isRecording() is false.
C4_WriteFailureStopsRecording ==
    (clPc = "count" /\ lastWrite = "fail") => ~m_recording

\* the encoder session changes in this step: it is created, initialized,
\* finalized or destroyed
SessionChanges == vw' # vw \/ m_videoWriter' # m_videoWriter

\* writeFrame is called in this step
SessionWritten == lastWrite' # lastWrite /\ lastWrite' # "none"

C6_StopPostcondition ==
    (uiPc = "ret" /\ uiOp = "stop" /\ uiRet) =>
        /\ clPc = "done"
        /\ m_thread = "none"
        /\ ~m_running
        /\ ~m_recording
        /\ ~(vw.exists /\ vw.m_active)
        /\ vw.m_pipeFd = -1

\* C6 witness: a stop() that finalized the recording that was active returns
C6_Witness ==
    /\ uiPc = "ret" /\ uiOp = "stop" /\ uiRet
    /\ finalized
    /\ clPc = "done"
    /\ ~m_recording

\* stop() has set the stop signal and has not returned yet
StopInProgress == uiOp = "stop" /\ uiPc \notin {"idle", "ret"}

\* C7: a stop() called while the capture thread runs eventually returns, with
\* or without an active recording, as long as no step of the capture loop has
\* ended the recorder process.
C7_StopReturns == StopInProgress ~> (uiPc = "ret" \/ ~Alive)

\* C8: finalize() on an active session, having closed the write end, waits for
\* the encoder with a bounded wait: as long as the recorder process lives, the
\* wait ends even if the encoder never exits.
C8_FinalizeReturns == (uiPc = "fin_wait") ~> (uiPc # "fin_wait" \/ ~Alive)

\* C9: writeFrame on an active session whose encoder has exited returns false
\* and the recorder process lives on.
C9_WriteToDeadEncoderFails ==
    writeOnDead => (lastWrite = "fail" /\ Alive)

\* C10: a startRecording that returns false leaves isRecording(), the session
\* pointer, m_recordingFilename, m_recordingFPS, m_recordingWidth,
\* m_recordingHeight and m_useScaling as they were before the call.
C10_FailedStartChangesNothing ==
    (uiPc = "ret" /\ uiOp = "startRecording" /\ ~uiRet) => Snapshot = pre

\* C11: startRecording returns false when a recording is already active or no
\* screen-capture provider has been set; it does so in one step that leaves the
\* recording flag, the session pointer, the session and its encoder as they
\* were, and the session of the active recording is still there and active
\* when the refused call returns.
C11_StartRecordingRefused ==
    /\ [][(uiPc = "idle" /\ uiOp' = "startRecording"
            /\ (m_recording \/ ~m_screenCapture)) =>
              /\ uiPc' = "ret" /\ ~uiRet'
              /\ m_recording' = m_recording
              /\ m_videoWriter' = m_videoWriter
              /\ vw' = vw
              /\ ffmpeg' = ffmpeg
              /\ UNCHANGED recVars]_vars
    /\ []((uiPc = "ret" /\ uiOp = "startRecording" /\ pre.recording) =>
              /\ ~uiRet
              /\ m_recording
              /\ m_videoWriter = "obj"
              /\ vw.exists /\ vw.m_active /\ vw.m_pipeFd = PipeFd
              /\ ~finalized)

\* C11 witness: a startRecording refused while a recording is active returns,
\* the capture thread having just written a frame to the session
C11_Witness ==
    /\ uiPc = "ret" /\ uiOp = "startRecording" /\ ~uiRet
    /\ pre.recording /\ m_recording
    /\ vw.m_active
    /\ lastWrite = "ok"

\* C12: start returns false, spawns no thread and leaves m_screenCapture,
\* m_frameBuffer, m_shouldStop and m_running unchanged when the thread is
\* already running or when either argument is null.
C12_StartRefused ==
    [][\A sc \in BOOLEAN, fb \in BOOLEAN :
          (uiPc = "idle" /\ Start(sc, fb) /\ (m_running \/ ~sc \/ ~fb)) =>
              /\ ~uiRet'
              /\ m_thread' = m_thread
              /\ clPc' = clPc
              /\ m_screenCapture' = m_screenCapture
              /\ m_frameBuffer' = m_frameBuffer
              /\ m_shouldStop' = m_shouldStop
              /\ m_running' = m_running]_vars

\* C12 witness: a start() refused because the capture thread is running
\* returns, the thread being inside its loop
C12_Witness ==
    /\ uiPc = "ret" /\ uiOp = "start" /\ ~uiRet
    /\ m_running /\ m_thread = "running"
    /\ clPc = "capture"

\* C13: stopRecording is idempotent. When a call returns, isRecording() is
\* false and no session is left; a call made while recording has finalized the
\* session (its pipe was closed once, the encoder waited for once) before
\* releasing it; a call made when not recording, a second call included,
\* changes no state and finalizes nothing.
C13_StopRecordingIdempotent ==
    /\ []((uiPc = "ret" /\ uiOp = "stopRecording") =>
              /\ ~m_recording
              /\ m_videoWriter = "null"
              /\ ~vw.exists
              /\ vw.m_pipeFd = -1
              /\ pre.recording =>
                    (finalized /\ ~vw.m_active /\ vw.m_processId = -1)
              /\ ~pre.recording => (~finalized /\ Snapshot = pre))
    /\ [][(uiOp' = "stopRecording" /\ ~pre.recording) =>
              (vw' = vw /\ UNCHANGED <<ctVars, recVars, finalized>>)]_vars
    /\ [][(vw.m_pipeFd # -1 /\ vw'.m_pipeFd = -1) =>
              (~finalized /\ finalized' /\ uiPc = "fin_enter")]_vars

\* C13 witness: a stopRecording that finalized the active session returns
C13_Witness ==
    /\ uiPc = "ret" /\ uiOp = "stopRecording"
    /\ pre.recording /\ finalized
    /\ ~m_recording /\ m_videoWriter = "null"

\* ==================================================== claims: the session
\* initialize fails for one of the reasons it checks before it spawns: the
\* session is active, the configuration is unusable, the probe found no ffmpeg
FailsBeforeSpawn ==
    wPre.m_active \/ ~ConfigValid(wArg.config) \/ sys.probe = "fail"

\* C17: an initialize call that fails because the session is already active,
\* because width, height or fps is not positive, because the output path is
\* empty or because the ffmpeg probe fails returns false, has created no pipe
\* and spawned no encoder, and leaves the active flag, the pipe handle and the
\* process handle as they were; no pipe and no process is created before the
\* probe has succeeded.
C17_InitializeFailure ==
    /\ []((wPc = "ret" /\ wOp = "initialize" /\ FailsBeforeSpawn) =>
              /\ ~wRet
              /\ sys.pipes = 0 /\ sys.forks = 0
              /\ sys.openFds = (IF wPre.m_active THEN 1 ELSE 0)
              /\ vw.m_active = wPre.m_active
              /\ vw.m_pipeFd = wPre.m_pipeFd
              /\ vw.m_processId = wPre.m_processId)
    /\ []((wOp = "initialize" /\ (sys.pipes > 0 \/ sys.forks > 0)) =>
              sys.probe = "ok")
    /\ [][(wOp' = "initialize" /\ (sys'.pipes > sys.pipes \/ sys'.forks > sys.forks)) =>
              sys.probe = "ok"]_vars

\* C17 witness: initialize is refused on a session that is active, which keeps
\* its pipe and its encoder
C17_Witness ==
    /\ wPc = "ret" /\ wOp = "initialize" /\ ~wRet
    /\ wPre.m_active /\ vw.m_active
    /\ vw.m_pipeFd = PipeFd /\ vw.m_processId = EncoderPid
    /\ ConfigValid(wArg.config)

\* C18: when a finalize returns, it returns true, isActive() is false, the
\* pipe's write end is closed and no process handle is retained; on an active
\* session it has closed the write end once and waited for the encoder once,
\* on a session that is not active (never started, or finalized before) it
\* has closed nothing, waited for nothing and changed nothing.
C18_PipeLifecycle ==
    (wPc = "ret" /\ wOp = "finalize") =>
        /\ wRet
        /\ ~vw.m_active
        /\ vw.m_pipeFd = -1
        /\ vw.m_processId = -1
        /\ sys.openFds = 0
        /\ IF wPre.m_active
              THEN sys.closes = 1 /\ sys.waits = 1
              ELSE sys.closes = 0 /\ sys.waits = 0 /\ vw = wPre

\* C18 witness: the finalize of a session that was started and has taken a
\* frame returns
C18_Witness ==
    /\ wPc = "ret" /\ wOp = "finalize" /\ wRet
    /\ wPre.m_active /\ sys.wrote
    /\ sys.closes = 1 /\ sys.waits = 1

\* C19: when the pipe accepts fewer bytes than requested, writeFrame returns
\* false after exactly one write attempt; no writeFrame makes a second write
\* attempt.
C19_PartialWrite ==
    /\ []((wPc = "ret" /\ wOp = "writeFrame" /\ sys.writes > 0
           /\ sys.accepted < wArg.size) =>
              (~wRet /\ sys.writes = 1))
    /\ [](sys.writes <= 1)

\* C19 witness: a writeFrame whose pipe took a part of the frame returns false
C19_Witness ==
    /\ wPc = "ret" /\ wOp = "writeFrame" /\ ~wRet
    /\ sys.writes = 1
    /\ sys.accepted > 0 /\ sys.accepted < wArg.size

\* ==================================================== claims: the provider
\* the capture region is the whole virtual desktop
FullDesktop(s) ==
    /\ s.m_selectedMonitor = -1
    /\ s.m_captureX = 0 /\ s.m_captureY = 0
    /\ s.m_captureWidth = s.m_width
    /\ s.m_captureHeight = s.m_height

\* C20: selectMonitor(-1) succeeds from every initialized state and sets the
\* capture region to origin (0,0) with the full width and height of the
\* virtual desktop; a second selectMonitor(-1) right after the first succeeds
\* too and leaves the region and the selection as the first left them.
C20_SelectAllMonitors ==
    /\ []((scOp = "selectMonitor" /\ scArg = -1) => (scRet /\ FullDesktop(provider)))
    /\ []((scOp = "selectMonitor" /\ scArg = -1 /\ scPre.m_initialized) =>
              /\ provider.m_captureWidth \in {g[1] : g \in DesktopGeoms}
              /\ provider.m_captureHeight \in {g[2] : g \in DesktopGeoms}
              /\ provider = [scPre EXCEPT !.m_selectedMonitor = -1,
                                          !.m_captureX = 0, !.m_captureY = 0,
                                          !.m_captureWidth = scPre.m_width,
                                          !.m_captureHeight = scPre.m_height])
    /\ [][(scOp = "selectMonitor" /\ scArg = -1
           /\ scOp' = "selectMonitor" /\ scArg' = -1) =>
              (scRet' /\ provider' = provider)]_vars

\* C20 witness: selectMonitor(-1) was called on an initialized provider whose
\* region was the second monitor, and has made it the whole desktop
C20_Witness ==
    /\ scOp = "selectMonitor" /\ scArg = -1 /\ scRet
    /\ scPre.m_initialized /\ scPre.m_selectedMonitor = 1
    /\ scPre.m_captureX = 2 /\ scPre.m_captureWidth = 1
    /\ FullDesktop(provider) /\ provider.m_captureWidth = 3

\* C21: selectMonitor(id) with id other than -1 and outside [0, number of
\* enumerated monitors) returns false and leaves the selected monitor id and
\* the capture region (x, y, width, height), as the whole provider, unchanged.
C21_InvalidMonitor ==
    (/\ scOp = "selectMonitor" /\ scArg # -1
     /\ (scArg < 0 \/ scArg >= Len(scPre.m_monitors))) =>
        /\ ~scRet
        /\ provider.m_selectedMonitor = scPre.m_selectedMonitor
        /\ provider.m_captureX = scPre.m_captureX
        /\ provider.m_captureY = scPre.m_captureY
        /\ provider.m_captureWidth = scPre.m_captureWidth
        /\ provider.m_captureHeight = scPre.m_captureHeight
        /\ provider = scPre

\* C21 witness: an id one past the last of two monitors was refused while the
\* second monitor is selected, which it still is
C21_Witness ==
    /\ scOp = "selectMonitor" /\ scArg = 2 /\ ~scRet
    /\ Len(provider.m_monitors) = 2
    /\ provider.m_initialized
    /\ provider.m_selectedMonitor = 1
    /\ provider.m_captureX = 2 /\ provider.m_captureWidth = 1

\* C22: whenever captureFrame returns false, the output FrameBuffer is exactly
\* as before the call: same data pointer, same contents, same width, height,
\* stride and size.
C22_FailedCaptureKeepsBuffer ==
    (scOp = "captureFrame" /\ ~scRet) => (scBuf = scBufPre /\ ~scAlloc)

\* C23: after every captureFrame that returns true, the output FrameBuffer has
\* the width and height of the capture region, stride = width * 3 and
\* size = stride * height bytes of data, whatever its geometry before.
C23_CaptureGeometry ==
    (scOp = "captureFrame" /\ scRet) =>
        /\ scBuf.alloc
        /\ scBuf.width = CaptureRegion(provider)[1]
        /\ scBuf.height = CaptureRegion(provider)[2]
        /\ scBuf.stride = scBuf.width * BytesPerPixel
        /\ scBuf.size = scBuf.stride * scBuf.height
        /\ Len(scBuf.data) = scBuf.size
        /\ scBuf.size > 0

\* C23 witness: a capture into a buffer that held a frame of another geometry
C23_Witness ==
    /\ scOp = "captureFrame" /\ scRet
    /\ scBufPre.alloc /\ scBufPre.data[1] \in ScreenBytes
    /\ scBufPre.width # scBuf.width
    /\ scAlloc
    /\ scBuf.data[1] \in ScreenBytes

\* ===================================================== claims: the exchange
IsUniform(data) == \A i \in 1..Len(data), j \in 1..Len(data) : data[i] = data[j]

\* the producer is between its load of the write index and the end of its swap
ProducerWriting == pPc \in {"copy", "lock", "storeWrite", "storeRead"}

\* C1: every getLatestFrame that returns true has filled the output with the
\* bytes of exactly one pushed frame, never a mixture of two frames and never
\* the frame the producer is writing at that moment.
C1_NoTearing ==
    (cPc = "ret" /\ cRet) =>
        /\ IsUniform(outFrame.data)
        /\ outFrame.data[1] \in 1..(nextId - 1)
        /\ ~(ProducerWriting /\ pFrame.data[1] = outFrame.data[1])

\* C2: the producer never copies into slot i while the consumer copies out of
\* the same slot i.
C2_NoSharedSlot ==
    ~(/\ pPc = "copy" /\ pOff < pFrame.size
      /\ cPc = "copy" /\ cOff < m_buffers[readIdx].size
      /\ writeIdx = readIdx)

\* C3: without overlap of calls, a getLatestFrame that follows n >= 1
\* successful pushes returns true with the contents of the last pushed frame,
\* and a getLatestFrame that follows no push returns false.
C3_DropSemantics ==
    (~overlap /\ cPc = "ret") =>
        IF pending >= 1
           THEN /\ cRet
                /\ outFrame.size = m_width * BytesPerPixel * m_height
                /\ outFrame.data = Fill(outFrame.size, lastPushed)
           ELSE ~cRet

\* C3 witness: two pushes without a take, then a take that returns the second
C3_Witness ==
    /\ ~overlap /\ cPc = "ret" /\ cRet
    /\ pending >= 2
    /\ lastPushed >= 2
    /\ outFrame.data = Fill(outFrame.size, lastPushed)

\* the frame handed to pushFrame has no data or another geometry than the
\* one given to initialize
Mismatch(frame) ==
    ~frame.alloc \/ frame.width # m_width \/ frame.height # m_height

\* C14: pushFrame returns false and performs no copy, no index swap and no
\* change of the availability flag when the frame's data pointer is null or
\* its width or height differ from the geometry given to initialize: the call
\* is over in one step that leaves the exchange as it was, and a producer
\* that copies, swaps or sets the flag holds a frame of the right geometry.
C14_PushRejected ==
    /\ [][(pPc = "idle" /\ pPc' # "idle" /\ Mismatch(pFrame')) =>
              (pPc' = "ret" /\ ~pRet' /\ UNCHANGED exchangeVars)]_vars
    /\ []((pPc = "ret" /\ Mismatch(pFrame)) => ~pRet)
    /\ [](pPc \in {"copy", "lock", "storeWrite", "storeRead", "flag"} =>
              ~Mismatch(pFrame))

\* C14 witness: a frame of another width was refused while an earlier frame
\* waits in the exchange
C14_Witness ==
    /\ pPc = "ret" /\ ~pRet
    /\ pFrame.alloc /\ pFrame.width # m_width
    /\ m_buffers[0].alloc
    /\ m_hasNewFrame /\ pending = 1

\* C15: getLatestFrame returns true exactly when the availability flag is set
\* at the call. With the flag clear it returns false in one step that leaves
\* the output frame, both indices and the flag unchanged. When it returns
\* true, every byte it copied came from the slot named by the read index it
\* loaded, its last step cleared the flag, and, no push overlapping the call,
\* the output equals the current read slot and the flag is clear.
C15_TakeLatest ==
    /\ [][(cPc = "idle" /\ cPc' # "idle") =>
              IF m_hasNewFrame
                 THEN cPc' = "index"
                 ELSE /\ cPc' = "ret" /\ ~cRet'
                      /\ UNCHANGED <<outFrame, m_writeIndex, m_readIndex,
                                     m_hasNewFrame, m_buffers>>]_vars
    /\ [][(cPc # "ret" /\ cPc' = "ret") =>
              /\ cRet' <=> cPc = "clear"
              /\ cRet' => ~m_hasNewFrame']_vars
    /\ [][(cPc = "index" /\ cPc' = "copy") => readIdx' = m_readIndex]_vars
    /\ [][(cPc = "copy" /\ cOff' = cOff + 1) =>
              outFrame'.data[cOff'] = m_buffers[readIdx].data[cOff']]_vars
    /\ [][cPc' # cPc => UNCHANGED <<m_writeIndex, m_readIndex, m_buffers>>]_vars
    /\ []((cPc = "ret" /\ cRet /\ ~overlap) =>
              /\ outFrame.data = m_buffers[m_readIndex].data
              /\ outFrame.width = m_width /\ outFrame.height = m_height
              /\ outFrame.size = m_buffers[m_readIndex].size
              /\ ~m_hasNewFrame)

\* C15 witness: a take that follows a push returns true with the read slot's
\* bytes, the flag cleared
C15_Witness ==
    /\ cPc = "ret" /\ cRet /\ ~overlap
    /\ outFrame.alloc
    /\ outFrame.data = m_buffers[m_readIndex].data
    /\ outFrame.data[1] = lastPushed /\ lastPushed >= 1
    /\ ~m_hasNewFrame

\* C16: the swap of the write and read indices is the only step executed
\* under m_swapMutex: the mutex is held only between the producer's lock and
\* the end of its swap, the consumer never holds it, and no step that copies a
\* byte into a slot or out of a slot is taken by a thread holding it.
C16_LockCoversSwapOnly ==
    /\ [](m_swapMutex \in {"free", "producer"})
    /\ [](m_swapMutex = "producer" <=> pPc \in {"storeWrite", "storeRead"})
    /\ [][(pPc = "copy" /\ (pOff' # pOff \/ m_buffers' # m_buffers)) =>
              (m_swapMutex = "free" /\ m_swapMutex' = "free")]_vars
    /\ [][(cPc = "copy" /\ (cOff' # cOff \/ outFrame' # outFrame)) =>
              m_swapMutex # "consumer"]_vars

\* C16 witness: the producer holds the mutex in the middle of its swap, its
\* copy of the whole frame done, while the consumer is in the middle of its
\* copy
C16_Witness ==
    /\ m_swapMutex = "producer" /\ pPc = "storeRead"
    /\ pOff = pFrame.size /\ pOff > 0
    /\ cPc = "copy" /\ cOff > 0 /\ cOff < m_buffers[readIdx].size

\* -------------------------------------------------------- specification
XNext ==
    \/ Initialize(CaptureWidth, CaptureHeight)
    \/ \E f \in InputFrames : P_Enter(f)
    \/ P_Copy
    \/ P_Lock
    \/ P_StoreWrite
    \/ P_StoreRead
    \/ P_Flag
    \/ P_Return
    \/ C_Enter
    \/ C_Index
    \/ C_Copy
    \/ C_Clear
    \/ C_Return

SpecX == Init /\ [][XNext]_vars

\* the exchange with its producer and its consumer, the owner re-initializing
\* it between their calls
RNext ==
    \/ Initialize(CaptureWidth, CaptureHeight)
    \/ \E g \in ReinitGeoms : Reinitialize(g[1], g[2])
    \/ \E f \in InputFrames : P_Enter(f)
    \/ P_Copy
    \/ P_Lock
    \/ P_StoreWrite
    \/ P_StoreRead
    \/ P_Flag
    \/ P_Return
    \/ C_Enter
    \/ C_Index
    \/ C_Copy
    \/ C_Clear
    \/ C_Return

SpecR == Init /\ [][RNext]_vars

\* C24: the bytes allocated for the output buffer of getLatestFrame always
\* equal its stride * height, and getLatestFrame never copies more bytes than
\* the output holds, whatever sequence of initialize (also with another
\* geometry), pushFrame and getLatestFrame the exchange has seen.
C24_OutputAllocation ==
    /\ outFrame.alloc => Len(outFrame.data) = outFrame.stride * outFrame.height
    /\ cPc = "copy" => m_buffers[readIdx].size <= Len(outFrame.data)

\* C25: calculateScaledDimensions returns the largest box that keeps the
\* source's aspect ratio within (maxWidth, maxHeight), each dimension rounded
\* down to an even number; 1920x1080 within 1280x1280 gives 1280x720.
C25_ScaledDimensions ==
    fsOp = "calculateScaledDimensions" =>
        LET sw == fsArgs[1]
            sh == fsArgs[2]
            mw == fsArgs[3]
            mh == fsArgs[4]
            box == IF mw * sh <= mh * sw
                      THEN <<mw, (mw * sh) \div sw>>
                      ELSE <<(mh * sw) \div sh, mh>>
        IN  /\ fsOut = <<(box[1] \div 2) * 2, (box[2] \div 2) * 2>>
            /\ fsArgs = <<1920, 1080, 1280, 1280>> => fsOut = <<1280, 720>>

\* C26: scaling a valid frame to its own dimensions returns true and leaves
\* a destination of the same geometry and the same bytes as the source,
\* whatever the destination held before.
C26_ScalerIdentity ==
    (/\ fsOp = "scaleFrame"
     /\ fsSource.alloc /\ fsSource.width > 0 /\ fsSource.height > 0
     /\ fsArgs[3] = fsSource.width /\ fsArgs[4] = fsSource.height) =>
        /\ fsRet
        /\ fsDst.alloc
        /\ fsDst.width = fsSource.width
        /\ fsDst.height = fsSource.height
        /\ fsDst.stride = fsSource.stride
        /\ fsDst.size = fsSource.size
        /\ fsDst.data = fsSource.data

C26_Witness ==
    /\ fsOp = "scaleFrame" /\ fsRet
    /\ fsArgs = <<2, 2, 2, 2>>
    /\ fsSource.data[1] # fsSource.data[4]
    /\ fsSource.data[1] # fsSource.data[7]
    /\ fsDstPre.alloc /\ fsDstPre.width = 1
    /\ fsDst = fsSource

\* C27: when startRecording succeeds, the encoder is configured with the
\* provider's native width and height and scaling is off if targetWidth or
\* targetHeight is 0; otherwise it is configured with exactly (targetWidth,
\* targetHeight) and scaling is on iff that differs from the capture geometry.
C27_RecordingGeometry ==
    (uiOp = "startRecording" /\ uiPc = "ret" /\ uiRet) =>
        LET native == uiArgs.targetWidth = 0 \/ uiArgs.targetHeight = 0
            geom == IF native THEN CaptureGeom
                              ELSE <<uiArgs.targetWidth, uiArgs.targetHeight>>
        IN  /\ vw.exists /\ vw.m_active
            /\ vw.m_config.width = geom[1]
            /\ vw.m_config.height = geom[2]
            /\ m_recordingWidth = geom[1]
            /\ m_recordingHeight = geom[2]
            /\ m_useScaling = (~native /\ geom # CaptureGeom)

C27_Witness ==
    /\ uiOp = "startRecording" /\ uiPc = "ret" /\ uiRet
    /\ uiArgs.targetWidth = 1 /\ uiArgs.targetHeight = 1
    /\ ~m_useScaling /\ vw.m_config.width = 1
    /\ pre.scaling /\ pre.width = 2

\* C28: in every reachable state, under any sequence of start, stop,
\* startRecording and stopRecording, isRecording() implies isRunning().
C28_RecordingImpliesRunning == m_recording => m_running

\* C29: every frame the capture loop writes to the encoder has exactly the
\* configured width * height * 3 bytes, on the scaled and on the unscaled
\* path, for any sequence of startRecording / stopRecording and targets.
C29_WrittenFrameSize ==
    [][(/\ clPc \in {"write", "write_scaled"}
        /\ clPc' = "count"
        /\ lastWrite' = "ok") =>
            WrittenFrame.size =
                vw.m_config.width * vw.m_config.height * BytesPerPixel]_vars

\* C30: in an iteration of the capture loop whose captureFrame returns false
\* nothing is pushed to the exchange, nothing is written to the encoder and
\* the frame counter is not incremented; the iteration goes on to its pacing
\* and back to the loop test, the loop is left only on the stop signal, and
\* the recording stays as it is.
C30_FailedCaptureSkipsFrame ==
    [][/\ (clPc = "capture" /\ clPc' # "capture" /\ clPc' # "push") =>
            /\ clPc' = "pace"
            /\ UNCHANGED <<exchangeVars, captureBuffer, scaledBuffer>>
            /\ UNCHANGED <<vw, ffmpeg, lastWrite, writeOnDead>>
            /\ frameCount' = frameCount
            /\ UNCHANGED <<m_recording, m_videoWriter, m_running, recVars>>
       /\ (clPc = "pace" /\ clPc' # "pace") =>
            /\ clPc' = "top"
            /\ frameCount' <= frameCount
            /\ UNCHANGED <<exchangeVars, vw, m_recording>>
       /\ (clPc # "done" /\ clPc' = "done") => (clPc = "top" /\ m_shouldStop)]_vars

C30_Witness ==
    /\ clPc = "pace" /\ frameCount = 0 /\ lastWrite = "none"
    /\ m_buffers[0].alloc /\ ~m_hasNewFrame
    /\ m_recording /\ vw.m_active /\ ffmpeg = "running"
    /\ ~m_shouldStop /\ m_running

\* C36: the frame rate the capture loop paces with is positive in every
\* reachable state: whatever fps is passed to startRecording, the loop never
\* evaluates 1000 / m_recordingFPS with m_recordingFPS <= 0.
C36_PositiveFrameRate == clPc = "pace" => m_recordingFPS > 0

\* C38: the capture thread never calls writeFrame on an encoder session that
\* is being or has been finalized or destroyed: whenever the write of the
\* capture loop executes, the writer exists, is active and has its pipe open.
C38_WriteOnLiveSession ==
    [][(clPc \in {"write", "write_scaled"} /\ clPc' = "count") =>
          /\ m_videoWriter # "null"
          /\ vw.exists
          /\ vw.m_active
          /\ vw.m_pipeFd # -1]_vars

\* C37: a getLatestFrame never clears the availability of a frame it did not
\* deliver: when a pushFrame has swapped the slots after the take loaded its
\* read index, then, both calls having finished, the flag is still set.
C37_FlagSurvivesTake ==
    (cPc = "ret" /\ cRet /\ pPc = "idle" /\ readIdx # m_readIndex) => m_hasNewFrame

\* C39: after initialize(w, h) getLatestFrame returns false until a pushFrame
\* issued after that initialize has completed: a step that allocates the
\* slots anew (no call of the producer or the consumer in progress) leaves
\* the availability flag clear, so that no take can succeed before a push.
C39_InitializeClearsFlag ==
    [][(pPc = "idle" /\ cPc = "idle" /\ m_buffers' # m_buffers) => ~m_hasNewFrame']_vars

\* C32: initialize on an exchange that already holds two allocated slots
\* releases them: after any number of initialize calls exactly two slot
\* buffers are live.
C32_TwoLiveSlots == m_buffers[0].alloc => liveSlots = 2

\* C33: for every destination pixel of a scaleFrame with positive source and
\* target dimensions, the sample positions of bilinearSample lie inside the
\* source: 0 <= x0 <= x1 <= srcWidth - 1 and 0 <= y0 <= y1 <= srcHeight - 1,
\* the second corner being min(coord + 1, dim - 1).
C33_SamplesInsideSource ==
    (fsOp = "scaleFrame" /\ fsRet) =>
        \A x \in 0..(fsArgs[3] - 1), y \in 0..(fsArgs[4] - 1) :
            LET cx == SampleCorner(<<x * fsSource.width, fsArgs[3]>>, fsSource.width)
                cy == SampleCorner(<<y * fsSource.height, fsArgs[4]>>, fsSource.height)
            IN  /\ 0 <= cx[1] /\ cx[1] <= cx[2] /\ cx[2] <= fsSource.width - 1
                /\ 0 <= cy[1] /\ cy[1] <= cy[2] /\ cy[2] <= fsSource.height - 1
                /\ cx[2] = Min(cx[1] + 1, fsSource.width - 1)
                /\ cy[2] = Min(cy[1] + 1, fsSource.height - 1)

C33_Witness ==
    /\ fsOp = "scaleFrame" /\ fsRet
    /\ fsArgs = <<2, 2, 2, 2>>
    /\ SampleCorner(<<1 * fsSource.width, fsArgs[3]>>, fsSource.width) = <<1, 1>>
    /\ SampleCorner(<<0, fsArgs[4]>>, fsSource.height) = <<0, 1>>
    /\ fsDst.data[4] # fsDst.data[1]

\* C34: convertToRGB24 of a 24-bit or 32-bit image with any row stride
\* bytes_per_line >= width * bytes per pixel: the output bytes R, G, B of
\* pixel (x, y), at offset (y * width + x) * 3, are the source bytes 2, 1, 0
\* at offset y * bytes_per_line + x * bytes per pixel; no padding byte and no
\* fourth byte reaches the output.
C34_PixelNormalization ==
    (fsOp = "convertToRGB24" /\ cvImage.bits_per_pixel \in {24, 32}) =>
        /\ Len(cvOut.data) = cvImage.width * cvImage.height * 3
        /\ \A x \in 0..(cvImage.width - 1), y \in 0..(cvImage.height - 1) :
              LET at == (y * cvImage.bytes_per_line)
                            + (x * (cvImage.bits_per_pixel \div 8))
                  to == ((y * cvImage.width) + x) * 3
              IN  /\ cvOut.data[to + 1] = cvImage.data[at + 3]
                  /\ cvOut.data[to + 2] = cvImage.data[at + 2]
                  /\ cvOut.data[to + 3] = cvImage.data[at + 1]

C34_Witness ==
    /\ fsOp = "convertToRGB24"
    /\ cvImage.bits_per_pixel = 32 /\ cvImage.width = 2 /\ cvImage.height = 2
    /\ cvImage.bytes_per_line = 9
    /\ cvOut.data = <<12, 11, 10, 16, 15, 14, 21, 20, 19, 25, 24, 23>>

\* C31: on a monitor switch selectMonitor on the provider and initialize on
\* the exchange are executed only while no capture thread is running: a step
\* that changes the provider or allocates the slots is taken with the
\* capture loop not started or ended and m_running clear.
C31_TeardownBeforeReconfigure ==
    [][(provider' # provider \/ liveSlots' # liveSlots) =>
          (clPc \in {"none", "done"} /\ ~m_running)]_vars

C31_Witness ==
    /\ liveSlots = 4 /\ provider.m_selectedMonitor = 1 /\ selectedMonitorId = 1
    /\ appPc = "idle" /\ m_running /\ clPc = "capture"

\* C35: after every UI action the recording flag of the UI equals
\* captureThread.isRecording().
C35_UiFlagMirrors == appPc = "idle" => (isRecording = m_recording)

\* C40: when startRecording is called concurrently from two threads while
\* not recording, at most one call returns true and at most one encoder
\* session (one ffmpeg subprocess) exists afterwards.
C40_OneSessionFromTwoCalls ==
    (\A t \in Callers : callers[t].pc = "ret") =>
        /\ Cardinality({t \in Callers : callers[t].ret}) <= 1
        /\ Cardinality(encoders) <= 1

====
